---- MODULE Spec2Model ----
(***************************************************************************)
(* sealfs: a networked filesystem.  Two state machines are modelled here:  *)
(*                                                                         *)
(*   SpecEngine  the daemon's metadata engine (src/deamon/engine.cpp):     *)
(*               worker threads running create_file / create_dir /         *)
(*               get_file_attr / read_dir / read_file / write_file on the  *)
(*               three key-value stores and the host filesystem, every     *)
(*               store and host call being one step;                       *)
(*   SpecClient  one client Connection (src/client/connection.cpp) with    *)
(*               its caller threads, its receive thread, the TCP byte      *)
(*               streams, and the daemon session that serves it            *)
(*               (src/deamon/server.cpp).                                  *)
(*                                                                         *)
(* Byte strings (paths, names, directory records) are sequences of byte    *)
(* values, so that the packed directory record is built and decoded the    *)
(* way the code builds and decodes it.                                     *)
(***************************************************************************)
EXTENDS Integers, Sequences, FiniteSets, TLC

(***************************************************************************)
(* Bounds of the model.                                                    *)
(***************************************************************************)
NumWorkers == 2       \* engine worker threads that can run at the same time
MaxEngOps  == 3       \* engine operations started in one behaviour
MaxFaults  == 1       \* store / host-filesystem calls that fail in one behaviour
NumCallers == 2       \* client threads that call into one Connection
MaxCliOps  == 2       \* client operations started in one behaviour
MaxRingOps == 3       \* client operations started in a behaviour without faults
MaxNetFaults == 1     \* daemon kills and failing send() calls in one behaviour
NoFaults   == 0       \* the same, in a behaviour without faults
MAX_BUFFER_SIZE == 2  \* slots of the callback ring (protocol.hpp: 65535)

(***************************************************************************)
(* Program constants.                                                      *)
(***************************************************************************)
SLASH   == 47         \* '/'
DOT     == 46         \* '.'
CH_f    == 102        \* 'f'
CH_d    == 100        \* 'd'
EPERM     == 1
ENOENT    == 2
EIO       == 5
EEXIST    == 17
ENOTDIR   == 20
EISDIR    == 21
ETIMEDOUT == 110

\* protocol.hpp: enum OperationType, enum CallbackState
CREATE_FILE   == 1
CREATE_DIR    == 2
GET_FILE_ATTR == 3
READ_DIR      == 4
OPEN_FILE     == 5
READ_FILE     == 6
WRITE_FILE    == 7
EMPTY       == 0
IN_PROGRESS == 1
DONE        == 2

(***************************************************************************)
(*                          THE METADATA ENGINE                            *)
(***************************************************************************)

Root == <<SLASH>>

\* The paths the workers are called with: "/a", "/d/", "/d/a", "a".
EngPaths == { <<SLASH, 97>>, <<SLASH, CH_d, SLASH>>,
              <<SLASH, CH_d, SLASH, 97>>, <<97>> }

\* Every prefix of a path is a possible store key.
Keys == {Root} \cup EngPaths \cup
        UNION { { SubSeq(p, 1, n) : n \in 1..Len(p) } : p \in EngPaths }

\* leveldb: the value a Get leaves when the key is absent (Status::NotFound).
NotFound == <<-1>>

Get(db, k) == db[k]
Put(db, k, v) == [db EXCEPT ![k] = v]

\* util.hpp add_dir: dirs + (char)(u_int8_t)dir.size() + dir
add_dir(dirs, dir) == dirs \o <<Len(dir) % 256>> \o dir

\* The record of a new directory: add_dir(add_dir("","."), "..")
EmptyDirRecord == add_dir(add_dir(<<>>, <<DOT>>), <<DOT, DOT>>)

\* The names of a packed record, decoded as Connection::read_remote_dir
\* decodes them: one length byte, then that many name bytes.
RECURSIVE DirNames(_)
DirNames(rec) ==
    IF rec = <<>> THEN <<>>
    ELSE LET n == rec[1]
         IN  IF n <= 0 \/ n + 1 > Len(rec) THEN <<>>
             ELSE <<SubSeq(rec, 2, n + 1)>> \o DirNames(SubSeq(rec, n + 2, Len(rec)))

\* The backwards scan for '/' of create_file (from the last byte) and of
\* create_dir (from the byte before the last): the parent key's length, 0
\* when no '/' is found.
ParentLen(path, from) ==
    LET hits == { i \in 1..from : path[i] = SLASH }
    IN  IF hits = {} THEN 0 ELSE CHOOSE i \in hits : \A j \in hits : j <= i

FileParentLen(path) == ParentLen(path, Len(path))
DirParentLen(path)  == ParentLen(path, Len(path) - 1)

\* grenerate_local_file_name: "<16 letters>/<16 letters>"; the k-th name
\* generated is the pair <<directory segment, file segment>>.
LocalFileName(k) == <<k, k>>
DirPath(name) == name[1]

Workers == 1..NumWorkers

\* The buffers, sizes and offsets read_file and write_file are called with.
WriteBufs == { <<7>> }
ReadSizes == { 1, 2 }
Offsets   == { 0, 1 }
NoArg == [buf |-> <<>>, size |-> 0, offset |-> 0]
NoWrite == [buf |-> <<>>, offset |-> -1]

VARIABLES
    file_attr_db,   \* attr namespace: key -> <<'f'>> | <<'d'>> | NotFound
    sub_dir_db,     \* dir namespace:  key -> packed record | NotFound
    file_db,        \* loc namespace:  key -> local file name | NotFound
    host_dirs,      \* host directories that exist
    host_files,     \* host files: name -> bytes (NotFound when absent)
    names_made,     \* number of local file names generated so far
    worker,         \* worker thread -> its operation's locals:
                    \*   pc     position in the operation ("idle", "done", ...)
                    \*   path   `path`
                    \*   arg    [buf, size, offset] of read_file / write_file
                    \*   value  `value`, the last Get's result
                    \*   name   `local_file_name`
                    \*   ret    the status the operation returned
                    \*   data   the bytes a read operation returned
    eng_ops,        \* operations started
    eng_faults,     \* store / host calls that have failed
    zero_creates,   \* path -> number of creates of it that returned 0
    called,         \* the paths create_file or create_dir was called with
    last_write      \* path -> [buf, offset] of the last write_file of the
                    \*   path that returned its size, its location entry
                    \*   not having been written since (NoWrite: none)

engvars == <<file_attr_db, sub_dir_db, file_db, host_dirs, host_files, names_made,
             worker, eng_ops, eng_faults, zero_creates, called,
             last_write>>

VARIABLES
    daemon_up,      \* the daemon process is running and accepting
    link,           \* the TCP connection of `sock`: "none" | "up" | "eof" (the
                    \*   daemon's end is closed)
    c2d,            \* request frames on the wire, oldest first; a frame is
                    \*   [req, id, op, sent, bad]: `sent` of its 2 parts
                    \*   (header, body) are written; bad: total_length is wrong
    d2c,            \* response frames on the wire: [req, id, status, sent,
                    \*   total, meta, data, junk]: the total_length,
                    \*   meta_data_length and data_length written in it; junk:
                    \*   the receive thread stands inside the frame
    connection,     \* Node::connection is not NULL
    sock,           \* Connection::sock: -1 or a descriptor
    connected,      \* Connection::connected
    callback_end,   \* Connection::callback_end, the cursor
    callbacks,      \* Connection::callbacks: slot -> [state, status, rsp, owner]
                    \*   rsp:   the request whose response was parsed into the slot
                    \*   owner: the request that took the slot and has not returned
    recv,           \* the receive thread: [pc, id]
    caller,         \* caller thread -> [pc, op, id, req, got, peer]
                    \*   req:  the number of the request (1, 2, ...)
                    \*   got:  the receive thread has consumed the request's
                    \*         response completely
                    \*   peer: a request of another caller that was
                    \*         outstanding together with this one
    returned,       \* the return the last step made (NoReturn when it made
                    \*   none): [op, req, ret, rsp, left, got, peer]
                    \*   rsp:  the request whose response the caller returned
                    \*   left: the state the caller's slot was left in
    aborted,        \* the client process died in assert()
    srv_connected,  \* Server::connected of the session serving `sock`
    srv_send_lock,  \* Server::send_lock is held
    srv_workers,    \* operation_filter threads: request -> [pc, id, op,
                    \*   status]; status: what the engine returned
    cli_ops,        \* client operations started
    net_faults,     \* daemon kills and send() failures on a live connection
    timed_out,      \* requests whose caller returned -ETIMEDOUT and whose
                    \*   response can still arrive
    clash,          \* two outstanding requests held the same id at some time
    node,           \* the thread calling Node::disconnect: [pc, calls]
    answered,       \* the requests for which response() has written a frame
    session,        \* one daemon session from accept() to `delete server`:
                    \*   pc        the thread running create_server
                    \*   connected Server::connected
                    \*   send_lock Server::send_lock is held
                    \*   peer_open the client's end of the socket is open
                    \*   threads   request -> [pc, type] of the
                    \*             operation_filter thread started for it
                    \*   freed_use a thread has used the Server after
                    \*             `delete server`
    xfer,           \* one read_remote_file call in a build without
                    \* assertions, from the call to its return:
                    \*   pc          how far the call has got
                    \*   size, offset  the caller's arguments
                    \*   buffer      the request bytes parse_request read
                    \*   srv_size, srv_offset  what operation_filter
                    \*               passed to Server::read_file
                    \*   read        the bytes the engine read
                    \*   meta, data  the two fields of the response
                    \*   slot_data   callbacks[id].data
                    \*   buf         the caller's buffer
                    \*   ret         what the call returned
    listing,        \* one directory of the engine: [record, names]
                    \*   record  its packed record in the dir namespace
                    \*   names   the names appended to it, in order
    owner           \* one Node of the client and the threads calling
                    \* Node::get_connection on it:
                    \*   node        "none" before add_server, then "made"
                    \*   connection  Node::connection: NULL, a Connection
                    \*               object (1, 2, ..) or WildPointer
                    \*   created     Connection objects created so far
                    \*   threads     thread -> [pc, got]; got: what
                    \*               get_connection returned to it

clivars == <<daemon_up, link, c2d, d2c, connection, sock, connected, callback_end,
             callbacks, recv, caller, returned, aborted, srv_connected,
             srv_send_lock, srv_workers, cli_ops, net_faults, timed_out, clash,
             node, answered, session, xfer, listing, owner>>

vars == <<engvars, clivars>>

\* The names a host file can get in one behaviour.
LocalNames == { LocalFileName(k) : k \in 1..MaxEngOps }

IdleWorker == [pc |-> "idle", op |-> "", path |-> <<>>, arg |-> NoArg,
               value |-> <<>>, name |-> <<>>, ret |-> 0, data |-> <<>>]

Quiet == \A w \in Workers : worker[w].pc \in {"idle", "done"}

\* A store or host call fails (Status not ok, -1 from the host).
Fault ==
    /\ eng_faults < MaxFaults
    /\ eng_faults' = eng_faults + 1

\* The worker returns `status` (and `data`); its locals die.
Return(w, status, data) ==
    worker' = [worker EXCEPT ![w] = [IdleWorker EXCEPT !.pc = "done",
                  !.op = worker[w].op, !.path = worker[w].path,
                  !.arg = worker[w].arg, !.ret = status, !.data = data]]

Goto(w, next) == worker' = [worker EXCEPT ![w].pc = next]

\* Engine::init(): wipe the three stores and install the root.  It is the
\* reset a test harness runs before the daemon serves requests.
init ==
    /\ eng_ops = 0
    /\ file_attr_db[Root] = NotFound
    /\ file_attr_db' = [k \in Keys |-> IF k = Root THEN <<CH_d>> ELSE NotFound]
    /\ sub_dir_db'   = [k \in Keys |-> IF k = Root THEN EmptyDirRecord ELSE NotFound]
    /\ file_db'      = [k \in Keys |-> IF k = Root THEN <<>> ELSE NotFound]
    /\ zero_creates' = [p \in EngPaths |-> 0]
    /\ UNCHANGED <<host_dirs, host_files, names_made, worker, eng_ops, eng_faults,
                   called, last_write>>
    /\ UNCHANGED clivars

\* A request is handed to a worker thread: the threads are interchangeable,
\* so it is the first one that is not running an operation.
Begin(w, path, first, arg) ==
    /\ worker[w].pc \in {"idle", "done"}
    /\ \A v \in Workers : v < w => worker[v].pc \notin {"idle", "done"}
    /\ eng_ops < MaxEngOps
    /\ eng_ops' = eng_ops + 1
    /\ worker' = [worker EXCEPT ![w] = [IdleWorker EXCEPT !.pc = first,
                     !.op = first, !.path = path, !.arg = arg]]
    /\ called' = IF first \in {"cf_check", "cd_check"} THEN called \cup {path}
                 ELSE called
    /\ UNCHANGED <<file_attr_db, sub_dir_db, file_db, host_dirs, host_files,
                   names_made, eng_faults, zero_creates, last_write>>
    /\ UNCHANGED clivars

call_create_file(w)   == \E p \in EngPaths : Begin(w, p, "cf_check", NoArg)
call_create_dir(w)    == \E p \in EngPaths : Begin(w, p, "cd_check", NoArg)
call_get_file_attr(w) == \E p \in EngPaths \cup {Root} : Begin(w, p, "ga_attr", NoArg)
call_read_dir(w)      == \E p \in EngPaths \cup {Root} : Begin(w, p, "rd_attr", NoArg)
call_read_file(w) ==
    \E p \in EngPaths, n \in ReadSizes, o \in Offsets :
        Begin(w, p, "rf_attr", [buf |-> <<>>, size |-> n, offset |-> o])
call_write_file(w) ==
    \E p \in EngPaths, b \in WriteBufs, o \in Offsets :
        Begin(w, p, "wf_attr", [buf |-> b, size |-> Len(b), offset |-> o])

(***************************************************************************)
(* Engine::create_file, one action per store / host call.                  *)
(***************************************************************************)

\* A create_file that does not look the path up in the attr namespace.
create_file_unchecked(w) ==
    /\ worker[w].pc = "cf_check"
    /\ LET path == worker[w].path IN
       IF path[Len(path)] = SLASH
       THEN Return(w, -EISDIR, <<>>)
       ELSE IF FileParentLen(path) = 0
            THEN Return(w, -EIO, <<>>)
            ELSE Goto(w, "cf_get_parent")
    /\ UNCHANGED <<file_attr_db, sub_dir_db, file_db, host_dirs, host_files,
                   names_made, eng_ops, eng_faults, zero_creates, called,
                   last_write>>
    /\ UNCHANGED clivars

\* engine.cpp 78-103: the trailing-'/' test, the attr Get, the parent scan.
create_file_check(w) ==
    /\ worker[w].pc = "cf_check"
    /\ LET path == worker[w].path IN
       IF path[Len(path)] = SLASH
       THEN Return(w, -EISDIR, <<>>) /\ UNCHANGED eng_faults
       ELSE \/ /\ Get(file_attr_db, path) # NotFound
               /\ Return(w, -EEXIST, <<>>) /\ UNCHANGED eng_faults
            \/ /\ Fault                         \* !status.IsNotFound()
               /\ Return(w, -EIO, <<>>)
            \/ /\ Get(file_attr_db, path) = NotFound
               /\ UNCHANGED eng_faults
               /\ IF FileParentLen(path) = 0
                  THEN Return(w, -EIO, <<>>)
                  ELSE Goto(w, "cf_get_parent")
    /\ UNCHANGED <<file_attr_db, sub_dir_db, file_db, host_dirs, host_files,
                   names_made, eng_ops, zero_creates, called,
                   last_write>>
    /\ UNCHANGED clivars

\* A create_file that writes the attr entry before it looks for the
\* parent's record.
create_file_attr_before_parent(w) ==
    /\ worker[w].pc = "cf_get_parent"
    /\ file_attr_db' = Put(file_attr_db, worker[w].path, <<CH_f>>)
    /\ LET path == worker[w].path
           parent_key == SubSeq(path, 1, FileParentLen(path))
       IN  IF Get(sub_dir_db, parent_key) = NotFound
           THEN Return(w, -ENOENT, <<>>)
           ELSE worker' = [worker EXCEPT ![w].value = Get(sub_dir_db, parent_key),
                                         ![w].pc = "cf_put_parent"]
    /\ UNCHANGED <<sub_dir_db, file_db, host_dirs, host_files, names_made,
                   eng_ops, eng_faults, zero_creates, called, last_write>>
    /\ UNCHANGED clivars

\* engine.cpp 104-109: sub_dir_db->Get(parent_key, &value)
create_file_get_parent(w) ==
    /\ worker[w].pc = "cf_get_parent"
    /\ LET path == worker[w].path
           parent_key == SubSeq(path, 1, FileParentLen(path))
       IN  \/ /\ Get(sub_dir_db, parent_key) = NotFound
              /\ Return(w, -ENOENT, <<>>) /\ UNCHANGED eng_faults
           \/ /\ Fault
              /\ Return(w, -ENOENT, <<>>)
           \/ /\ Get(sub_dir_db, parent_key) # NotFound
              /\ worker' = [worker EXCEPT ![w].value = Get(sub_dir_db, parent_key),
                                          ![w].pc = "cf_put_parent"]
              /\ UNCHANGED eng_faults
    /\ UNCHANGED <<file_attr_db, sub_dir_db, file_db, host_dirs, host_files,
                   names_made, eng_ops, zero_creates, called,
                   last_write>>
    /\ UNCHANGED clivars

\* engine.cpp 110-116: sub_dir_db->Put(parent_key, add_dir(value, new_dir))
create_file_put_parent(w) ==
    /\ worker[w].pc = "cf_put_parent"
    /\ LET path == worker[w].path
           n == FileParentLen(path)
           parent_key == SubSeq(path, 1, n)
           new_dir == SubSeq(path, n + 1, Len(path))
       IN  \/ /\ Fault
              /\ Return(w, -EIO, <<>>)
              /\ UNCHANGED sub_dir_db
           \/ /\ sub_dir_db' = Put(sub_dir_db, parent_key,
                                   add_dir(worker[w].value, new_dir))
              /\ Goto(w, "cf_put_attr")
              /\ UNCHANGED eng_faults
    /\ UNCHANGED <<file_attr_db, file_db, host_dirs, host_files, names_made,
                   eng_ops, zero_creates, called,
                   last_write>>
    /\ UNCHANGED clivars

\* engine.cpp 118-123: file_attr_db->Put(path, "f")
create_file_put_attr(w) ==
    /\ worker[w].pc = "cf_put_attr"
    /\ \/ /\ Fault
          /\ Return(w, -EIO, <<>>)
          /\ UNCHANGED file_attr_db
       \/ /\ file_attr_db' = Put(file_attr_db, worker[w].path, <<CH_f>>)
          /\ Goto(w, "cf_put_loc")
          /\ UNCHANGED eng_faults
    /\ UNCHANGED <<sub_dir_db, file_db, host_dirs, host_files, names_made,
                   eng_ops, zero_creates, called,
                   last_write>>
    /\ UNCHANGED clivars

\* engine.cpp 124-129: generate the local name, file_db->Put(path, name)
create_file_put_loc(w) ==
    /\ worker[w].pc = "cf_put_loc"
    /\ names_made' = names_made + 1
    /\ LET local_file_name == LocalFileName(names_made + 1) IN
       \/ /\ Fault
          /\ Return(w, -EIO, <<>>)
          /\ UNCHANGED <<file_db, last_write>>
       \/ /\ file_db' = Put(file_db, worker[w].path, local_file_name)
          /\ last_write' = [last_write EXCEPT ![worker[w].path] = NoWrite]
          /\ worker' = [worker EXCEPT ![w].name = local_file_name,
                                      ![w].pc = "cf_mkdir"]
          /\ UNCHANGED eng_faults
    /\ UNCHANGED <<file_attr_db, sub_dir_db, host_dirs, host_files,
                   eng_ops, zero_creates, called>>
    /\ UNCHANGED clivars

\* engine.cpp 130-137: access(dir_path) / mkdir(dir_path, 0777)
create_file_mkdir(w) ==
    /\ worker[w].pc = "cf_mkdir"
    /\ LET dir_path == DirPath(worker[w].name) IN
       IF dir_path \in host_dirs
       THEN Goto(w, "cf_open") /\ UNCHANGED <<eng_faults, host_dirs>>
       ELSE \/ /\ Fault
               /\ Return(w, -EIO, <<>>)
               /\ UNCHANGED host_dirs
            \/ /\ host_dirs' = host_dirs \cup {dir_path}
               /\ Goto(w, "cf_open")
               /\ UNCHANGED eng_faults
    /\ UNCHANGED <<file_attr_db, sub_dir_db, file_db, host_files, names_made,
                   eng_ops, zero_creates, called,
                   last_write>>
    /\ UNCHANGED clivars

\* engine.cpp 138-146: open(local_file_name, O_CREAT | O_RDWR, mode); close
create_file_open(w) ==
    /\ worker[w].pc = "cf_open"
    /\ \/ /\ Fault
          /\ Return(w, -EIO, <<>>)
          /\ UNCHANGED <<host_files, zero_creates>>
       \/ /\ host_files' = [host_files EXCEPT ![worker[w].name] =
                               IF @ = NotFound THEN <<>> ELSE @]
          /\ zero_creates' = [zero_creates EXCEPT ![worker[w].path] = @ + 1]
          /\ Return(w, 0, <<>>)
          /\ UNCHANGED eng_faults
    /\ UNCHANGED <<file_attr_db, sub_dir_db, file_db, host_dirs, names_made, eng_ops,
                   called, last_write>>
    /\ UNCHANGED clivars

(***************************************************************************)
(* Engine::create_dir, one action per store call.                          *)
(***************************************************************************)

\* engine.cpp 151-176: the trailing-'/' test, the attr Get, the parent scan.
create_dir_check(w) ==
    /\ worker[w].pc = "cd_check"
    /\ LET path == worker[w].path IN
       IF path[Len(path)] # SLASH
       THEN Return(w, -ENOTDIR, <<>>) /\ UNCHANGED eng_faults
       ELSE \/ /\ Get(file_attr_db, path) # NotFound
               /\ Return(w, -EEXIST, <<>>) /\ UNCHANGED eng_faults
            \/ /\ Fault                         \* !status.IsNotFound()
               /\ Return(w, -EIO, <<>>)
            \/ /\ Get(file_attr_db, path) = NotFound
               /\ UNCHANGED eng_faults
               /\ IF DirParentLen(path) = 0
                  THEN Return(w, -EIO, <<>>)
                  ELSE Goto(w, "cd_get_parent")
    /\ UNCHANGED <<file_attr_db, sub_dir_db, file_db, host_dirs, host_files,
                   names_made, eng_ops, zero_creates, called,
                   last_write>>
    /\ UNCHANGED clivars

\* engine.cpp 177-182: sub_dir_db->Get(parent_key, &value)
create_dir_get_parent(w) ==
    /\ worker[w].pc = "cd_get_parent"
    /\ LET path == worker[w].path
           parent_key == SubSeq(path, 1, DirParentLen(path))
       IN  \/ /\ Get(sub_dir_db, parent_key) = NotFound
              /\ Return(w, -ENOENT, <<>>) /\ UNCHANGED eng_faults
           \/ /\ Fault
              /\ Return(w, -ENOENT, <<>>)
           \/ /\ Get(sub_dir_db, parent_key) # NotFound
              /\ worker' = [worker EXCEPT ![w].value = Get(sub_dir_db, parent_key),
                                          ![w].pc = "cd_put_parent"]
              /\ UNCHANGED eng_faults
    /\ UNCHANGED <<file_attr_db, sub_dir_db, file_db, host_dirs, host_files,
                   names_made, eng_ops, zero_creates, called,
                   last_write>>
    /\ UNCHANGED clivars

\* engine.cpp 183-189: sub_dir_db->Put(parent_key, add_dir(value, leaf))
create_dir_put_parent(w) ==
    /\ worker[w].pc = "cd_put_parent"
    /\ LET path == worker[w].path
           n == DirParentLen(path)
           parent_key == SubSeq(path, 1, n)
           new_dirs == add_dir(worker[w].value, SubSeq(path, n + 1, Len(path)))
       IN  \/ /\ Fault
              /\ Return(w, -EIO, <<>>)
              /\ UNCHANGED sub_dir_db
           \/ /\ sub_dir_db' = Put(sub_dir_db, parent_key, new_dirs)
              /\ Goto(w, "cd_put_dir")
              /\ UNCHANGED eng_faults
    /\ UNCHANGED <<file_attr_db, file_db, host_dirs, host_files, names_made,
                   eng_ops, zero_creates, called,
                   last_write>>
    /\ UNCHANGED clivars

\* A create_dir that writes the attr entry without having written the
\* directory's own record.
create_dir_without_record(w) ==
    /\ worker[w].pc = "cd_put_dir"
    /\ Goto(w, "cd_put_attr")
    /\ UNCHANGED <<file_attr_db, sub_dir_db, file_db, host_dirs, host_files,
                   names_made, eng_ops, eng_faults, zero_creates, called,
                   last_write>>
    /\ UNCHANGED clivars

\* engine.cpp 190-194: sub_dir_db->Put(path, add_dir(add_dir("","."), ".."))
create_dir_put_dir(w) ==
    /\ worker[w].pc = "cd_put_dir"
    /\ \/ /\ Fault
          /\ Return(w, -EIO, <<>>)
          /\ UNCHANGED sub_dir_db
       \/ /\ sub_dir_db' = Put(sub_dir_db, worker[w].path, EmptyDirRecord)
          /\ Goto(w, "cd_put_attr")
          /\ UNCHANGED eng_faults
    /\ UNCHANGED <<file_attr_db, file_db, host_dirs, host_files, names_made,
                   eng_ops, zero_creates, called,
                   last_write>>
    /\ UNCHANGED clivars

\* engine.cpp 196-203: file_attr_db->Put(path, "d"); return 0
create_dir_put_attr(w) ==
    /\ worker[w].pc = "cd_put_attr"
    /\ \/ /\ Fault
          /\ Return(w, -EIO, <<>>)
          /\ UNCHANGED <<file_attr_db, zero_creates>>
       \/ /\ file_attr_db' = Put(file_attr_db, worker[w].path, <<CH_d>>)
          /\ zero_creates' = [zero_creates EXCEPT ![worker[w].path] = @ + 1]
          /\ Return(w, 0, <<>>)
          /\ UNCHANGED eng_faults
    /\ UNCHANGED <<sub_dir_db, file_db, host_dirs, host_files, names_made, eng_ops,
                   called, last_write>>
    /\ UNCHANGED clivars

(***************************************************************************)
(* The engine's read operations and write_file.                            *)
(***************************************************************************)

\* What every step of these operations leaves alone.
StoresUnchanged ==
    UNCHANGED <<file_attr_db, sub_dir_db, file_db, host_dirs, names_made,
                eng_ops, zero_creates, called, clivars>>

\* A get_file_attr that reports every entry as a directory.
get_file_attr_all_dirs(w) ==
    /\ worker[w].pc = "ga_attr"
    /\ LET value == Get(file_attr_db, worker[w].path) IN
       IF value = NotFound THEN Return(w, -ENOENT, <<>>)
       ELSE Return(w, 0, <<CH_d, 2>>)
    /\ UNCHANGED <<file_attr_db, sub_dir_db, file_db, host_dirs, host_files,
                   names_made, eng_ops, eng_faults, zero_creates, called,
                   last_write>>
    /\ UNCHANGED clivars

\* engine.cpp 206-223: Engine::get_file_attr.  The stat it fills is
\* <<st_mode tag, st_nlink>>: <<'f', 1>> for S_IFREG|0777, <<'d', 2>> for
\* S_IFDIR|0777.
get_file_attr(w) ==
    /\ worker[w].pc = "ga_attr"
    /\ LET value == Get(file_attr_db, worker[w].path) IN
       \/ /\ value = NotFound
          /\ Return(w, -ENOENT, <<>>) /\ UNCHANGED eng_faults
       \/ /\ Fault
          /\ Return(w, -ENOENT, <<>>)
       \/ /\ value = <<CH_f>>
          /\ Return(w, 0, <<CH_f, 1>>) /\ UNCHANGED eng_faults
       \/ /\ value = <<CH_d>>
          /\ Return(w, 0, <<CH_d, 2>>) /\ UNCHANGED eng_faults
    /\ StoresUnchanged /\ UNCHANGED <<host_files, last_write>>

\* engine.cpp 226-233: read_dir's attr Get
read_dir_attr(w) ==
    /\ worker[w].pc = "rd_attr"
    /\ LET value == Get(file_attr_db, worker[w].path) IN
       \/ /\ value = NotFound
          /\ Return(w, -ENOENT, <<>>) /\ UNCHANGED eng_faults
       \/ /\ Fault
          /\ Return(w, -ENOENT, <<>>)
       \/ /\ value # NotFound /\ value # <<CH_d>>
          /\ Return(w, -ENOTDIR, <<>>) /\ UNCHANGED eng_faults
       \/ /\ value = <<CH_d>>
          /\ Goto(w, "rd_dir") /\ UNCHANGED eng_faults
    /\ StoresUnchanged /\ UNCHANGED <<host_files, last_write>>

\* engine.cpp 234-240: read_dir's dir Get; the record is returned verbatim
read_dir_dir(w) ==
    /\ worker[w].pc = "rd_dir"
    /\ LET value == Get(sub_dir_db, worker[w].path) IN
       \/ /\ value = NotFound
          /\ Return(w, -ENOENT, <<>>) /\ UNCHANGED eng_faults
       \/ /\ Fault
          /\ Return(w, -ENOENT, <<>>)
       \/ /\ value # NotFound
          /\ Return(w, 0, value) /\ UNCHANGED eng_faults
    /\ StoresUnchanged /\ UNCHANGED <<host_files, last_write>>

\* An attr Get that does not look at the type of the entry it finds.
file_attr_any_type(w, here, next) ==
    /\ worker[w].pc = here
    /\ IF Get(file_attr_db, worker[w].path) = NotFound
       THEN Return(w, -ENOENT, <<>>)
       ELSE Goto(w, next)
    /\ UNCHANGED <<file_attr_db, sub_dir_db, file_db, host_dirs, host_files,
                   names_made, eng_ops, eng_faults, zero_creates, called,
                   last_write>>
    /\ UNCHANGED clivars

\* engine.cpp 246-253 (write_file) and 278-285 (read_file): the attr Get
file_attr(w, here, next) ==
    /\ worker[w].pc = here
    /\ LET value == Get(file_attr_db, worker[w].path) IN
       \/ /\ value = NotFound
          /\ Return(w, -ENOENT, <<>>) /\ UNCHANGED eng_faults
       \/ /\ Fault
          /\ Return(w, -ENOENT, <<>>)
       \/ /\ value # NotFound /\ value # <<CH_f>>
          /\ Return(w, -EISDIR, <<>>) /\ UNCHANGED eng_faults
       \/ /\ value = <<CH_f>>
          /\ Goto(w, next) /\ UNCHANGED eng_faults
    /\ StoresUnchanged /\ UNCHANGED <<host_files, last_write>>

\* engine.cpp 254-259 (write_file) and 286-291 (read_file): the loc Get
file_loc(w, here, next) ==
    /\ worker[w].pc = here
    /\ LET value == Get(file_db, worker[w].path) IN
       \/ /\ value = NotFound
          /\ Return(w, -EIO, <<>>) /\ UNCHANGED eng_faults
       \/ /\ Fault
          /\ Return(w, -EIO, <<>>)
       \/ /\ value # NotFound
          /\ worker' = [worker EXCEPT ![w].value = value, ![w].pc = next]
          /\ UNCHANGED eng_faults
    /\ StoresUnchanged /\ UNCHANGED <<host_files, last_write>>

write_file_attr(w) == file_attr(w, "wf_attr", "wf_loc")
write_file_loc(w)  == file_loc(w, "wf_loc", "wf_io")
read_file_attr(w)  == file_attr(w, "rf_attr", "rf_loc")
read_file_loc(w)   == file_loc(w, "rf_loc", "rf_io")

\* The host file `name` exists.
HostFileExists(name) == name \in DOMAIN host_files /\ host_files[name] # NotFound

\* pwrite(fd, buf, size, offset) on a file holding `bytes`: the gap up to
\* the offset reads as zeros.
PWrite(bytes, buf, size, offset) ==
    LET n == IF Len(bytes) > offset + size THEN Len(bytes) ELSE offset + size
    IN  [i \in 1..n |-> IF i > offset /\ i <= offset + size THEN buf[i - offset]
                        ELSE IF i <= Len(bytes) THEN bytes[i] ELSE 0]

\* A pread that ignores the offset and reads from the start of the file.
PReadFromStart(bytes, size, offset) ==
    SubSeq(bytes, 1, IF size < Len(bytes) THEN size ELSE Len(bytes))

\* pread(fd, buf, size, offset) on a file holding `bytes`.
PRead(bytes, size, offset) ==
    IF offset >= Len(bytes) THEN <<>>
    ELSE SubSeq(bytes, offset + 1,
                IF offset + size < Len(bytes) THEN offset + size ELSE Len(bytes))

\* engine.cpp 260-272: open(O_WRONLY), pwrite, close; returns size
write_file_io(w) ==
    /\ worker[w].pc = "wf_io"
    /\ LET name == worker[w].value
           arg  == worker[w].arg
       IN  \/ /\ ~HostFileExists(name)
              /\ Return(w, -EIO, <<>>)
              /\ UNCHANGED <<host_files, eng_faults, last_write>>
           \/ /\ Fault                          \* open or pwrite fails
              /\ Return(w, -EIO, <<>>) /\ UNCHANGED <<host_files, last_write>>
           \/ /\ HostFileExists(name)
              /\ host_files' = [host_files EXCEPT ![name] =
                                   PWrite(@, arg.buf, arg.size, arg.offset)]
              /\ last_write' = [last_write EXCEPT ![worker[w].path] =
                                   [buf |-> arg.buf, offset |-> arg.offset]]
              /\ Return(w, arg.size, <<>>) /\ UNCHANGED eng_faults
    /\ StoresUnchanged

\* engine.cpp 292-303: open(O_RDONLY), pread, close; returns size
read_file_io(w) ==
    /\ worker[w].pc = "rf_io"
    /\ LET name == worker[w].value
           arg  == worker[w].arg
       IN  \/ /\ ~HostFileExists(name)
              /\ Return(w, -EIO, <<>>) /\ UNCHANGED eng_faults
           \/ /\ Fault                          \* open or pread fails
              /\ Return(w, -EIO, <<>>)
           \/ /\ HostFileExists(name)
              /\ Return(w, arg.size, PRead(host_files[name], arg.size, arg.offset))
              /\ UNCHANGED eng_faults
    /\ StoresUnchanged /\ UNCHANGED <<host_files, last_write>>

EngineStep ==
    \/ init
    \/ \E w \in Workers :
          \/ call_create_file(w)
          \/ create_file_check(w)
          \/ create_file_get_parent(w)
          \/ create_file_put_parent(w)
          \/ create_file_put_attr(w)
          \/ create_file_put_loc(w)
          \/ create_file_mkdir(w)
          \/ create_file_open(w)
          \/ call_create_dir(w)
          \/ create_dir_check(w)
          \/ create_dir_get_parent(w)
          \/ create_dir_put_parent(w)
          \/ create_dir_put_dir(w)
          \/ create_dir_put_attr(w)
          \/ call_get_file_attr(w)
          \/ get_file_attr(w)
          \/ call_read_dir(w)
          \/ read_dir_attr(w)
          \/ read_dir_dir(w)
          \/ call_read_file(w)
          \/ read_file_attr(w)
          \/ read_file_loc(w)
          \/ read_file_io(w)
          \/ call_write_file(w)
          \/ write_file_attr(w)
          \/ write_file_loc(w)
          \/ write_file_io(w)

(***************************************************************************)
(*            ONE CLIENT CONNECTION AND THE SESSION SERVING IT             *)
(***************************************************************************)

Callers == 1..NumCallers
Slots   == 0..(MAX_BUFFER_SIZE - 1)
Reqs    == 1..MaxRingOps

\* The operations of Connection that send a request, and the two that do not.
SendingOps == {CREATE_FILE, GET_FILE_ATTR, READ_DIR, READ_FILE, WRITE_FILE}
LocalOps   == {CREATE_DIR, OPEN_FILE}

\* The statuses a daemon worker answers with (the engine's result).
Statuses == {0, -ENOENT}

\* A frame is written in two parts: the 16-byte header, then the body.
FrameParts == 2

\* The descriptor socket() returns.
FD == 3

IdleCaller == [pc |-> "idle", op |-> 0, id |-> 0, req |-> 0, got |-> FALSE,
               peer |-> 0]

NoReturn == [op |-> 0, req |-> 0, ret |-> 0, rsp |-> 0, left |-> EMPTY,
             got |-> FALSE, peer |-> 0]

NoWorkers == [r \in Reqs |-> [pc |-> "none", id |-> 0, op |-> 0, status |-> 0]]

EmptySlot == [state |-> EMPTY, status |-> 0, rsp |-> 0, owner |-> 0]

\* The requests one session receives.
MaxSessReqs == 2
SessReqs == 1..MaxSessReqs

\* A request type outside OperationType (protocol.hpp 9-17).
UnknownType == 0

\* main.cpp 18, server.cpp 9-13: `new Server(m_socket, m_engine)`:
\* connected = true; the thread is about to run parse_request.
NewServer ==
    [pc |-> "parse_request", connected |-> TRUE, send_lock |-> FALSE,
     peer_open |-> TRUE,
     threads |-> [r \in SessReqs |-> [pc |-> "none", type |-> UnknownType]],
     freed_use |-> FALSE]

\* engine.cpp 190: the record create_dir writes for a new directory, and
\* the two names in it.
NewListing == [record |-> EmptyDirRecord, names |-> <<<<DOT>>, <<DOT, DOT>>>>]

\* The threads that call into one Node at the same time.
MaxNodeThreads == 3
NodeThreads == 1..MaxNodeThreads

\* A null pointer, and a pointer that is not one to a Connection.
NULL == 0
WildPointer == -1

\* Before Client::add_server: there is no Node.
NoNode ==
    [node |-> "none", connection |-> NULL, created |-> 0,
     threads |-> [t \in NodeThreads |-> [pc |-> "idle", got |-> NULL]]]

\* No read_remote_file call has been made.
NoTransfer ==
    [pc |-> "idle", size |-> 0, offset |-> 0, buffer |-> <<>>, srv_size |-> 0,
     srv_offset |-> 0, read |-> <<>>, meta |-> <<>>, data |-> <<>>,
     slot_data |-> <<>>, buf |-> <<>>, ret |-> 0]

\* The state after construction.  Engine::Engine(): the three stores are
\* opened (create_if_missing) and are empty on a fresh working directory.
\* Node::Node: there is no Connection yet; the daemon is running.
Init ==
    /\ file_attr_db = [k \in Keys |-> NotFound]
    /\ sub_dir_db   = [k \in Keys |-> NotFound]
    /\ file_db      = [k \in Keys |-> NotFound]
    /\ host_dirs    = {}
    /\ host_files   = [n \in LocalNames |-> NotFound]
    /\ names_made   = 0
    /\ worker       = [w \in Workers |-> IdleWorker]
    /\ eng_ops      = 0
    /\ eng_faults   = 0
    /\ zero_creates = [p \in EngPaths |-> 0]
    /\ called       = {}
    /\ last_write   = [p \in EngPaths |-> NoWrite]
    /\ daemon_up = TRUE
    /\ link = "none"
    /\ c2d = <<>>
    /\ d2c = <<>>
    /\ connection = FALSE
    /\ sock = -1
    /\ connected = 0
    /\ callback_end = 0
    /\ callbacks = [i \in Slots |-> EmptySlot]
    /\ recv = [pc |-> "none", id |-> 0]
    /\ caller = [c \in Callers |-> IdleCaller]
    /\ returned = NoReturn
    /\ aborted = FALSE
    /\ srv_connected = FALSE
    /\ srv_send_lock = FALSE
    /\ srv_workers = NoWorkers
    /\ cli_ops = 0
    /\ net_faults = 0
    /\ timed_out = {}
    /\ clash = FALSE
    /\ node = [pc |-> "idle", calls |-> 0]
    /\ answered = {}
    /\ session = NewServer
    /\ xfer = NoTransfer
    /\ listing = NewListing
    /\ owner = NoNode

\* What no client step changes: the engine's state.
EngineIdle == UNCHANGED engvars

\* What no step of the client, the connection or its session changes.
SessionIdle == UNCHANGED session

\* What no step but those of the read_remote_file call changes.
TransferIdle == UNCHANGED xfer

\* What no step but an append to the directory's record changes.
ListingIdle == UNCHANGED listing

\* What no step but those of Node::get_connection changes.
OwnerIdle == UNCHANGED owner

\* What no step of the operations, the receive thread or the daemon changes.
NodeIdle == UNCHANGED node

\* What no step but response() changes.
NoAnswer == UNCHANGED answered

\* A caller whose request holds an id: from the read of the cursor to its return.
Outstanding(c) ==
    caller[c].pc \in {"bump", "mark", "send", "mark_late", "wait"}

\* main.cpp 66-75, server.cpp 9-13: the daemon accepts the connection and
\* starts a session (a Server and its parse_request thread) on it.  No
\* response of an earlier connection arrives on this one.
NewSession ==
    /\ link' = "up"
    /\ d2c' = <<>>
    /\ srv_connected' = TRUE
    /\ srv_send_lock' = FALSE
    /\ srv_workers' = NoWorkers
    /\ timed_out' = {}

SessionUnchanged ==
    UNCHANGED <<link, d2c, srv_connected, srv_send_lock, srv_workers, timed_out>>

\* connection.cpp 64-79: Connection::reconnect under connect_lock: socket(),
\* which returns the lowest free descriptor (the one in `sock` is still
\* open unless disconnect() closed it), then connect().  A failed connect()
\* leaves the new descriptor in `sock`.
reconnect_socket ==
    /\ sock' = IF sock = -1 THEN FD ELSE sock + 1
    /\ IF daemon_up
       THEN connected' = 1 /\ NewSession
       ELSE UNCHANGED connected /\ SessionUnchanged

\* connection.cpp 60-80: Connection::reconnect called and returning with no
\* other thread in it.
reconnect ==
    IF connected = 1
    THEN UNCHANGED <<sock, connected>> /\ SessionUnchanged
    ELSE reconnect_socket

\* reconnect() makes a new connection, on which no request has been written.
Reconnects == connected = 0 /\ daemon_up

\* The caller returns `status`: its thread is free again, and the slot it
\* took has no request any more.  rsp and left record, for a request that
\* took a slot, whose response the slot held and the state the slot is left in.
Leave(c, status, rsp, left) ==
    /\ caller' = [caller EXCEPT ![c] = IdleCaller]
    /\ returned' = [op |-> caller[c].op, req |-> caller[c].req, ret |-> status,
                    rsp |-> rsp, left |-> left, got |-> caller[c].got,
                    peer |-> caller[c].peer]

\* The slots after the request of caller c has left slot id in `state`.
Released(c, id, state) ==
    [callbacks EXCEPT ![id] =
        IF @.owner = caller[c].req THEN [@ EXCEPT !.state = state, !.rsp = 0, !.owner = 0]
        ELSE [@ EXCEPT !.state = state]]

\* client.cpp 101-155 and 41-52, connection.cpp 13-37 and 275, 304, 313,
\* 350, 409, 418, 462.  An operation of the client is called on a caller
\* thread (the threads are interchangeable, so it is the first one that is
\* not in an operation).  Node::get_connection constructs the Connection on
\* first use (reconnect(), then the receive thread is started) and
\* reconnects one whose sock is -1, the operation returning -EIO when that
\* fails.  The operation of the Connection returns -EIO when connected is 0;
\* create_remote_dir and open_remote_file return -EPERM.  max_ops bounds the
\* operations of one behaviour.
Call(c, op, max_ops) ==
    /\ ~aborted
    /\ caller[c].pc = "idle"
    /\ \A b \in Callers : b < c => caller[b].pc # "idle"
    /\ cli_ops < max_ops
    /\ cli_ops' = cli_ops + 1
    /\ connection' = TRUE
    /\ IF ~connection
       THEN reconnect
       ELSE UNCHANGED <<sock, connected>> /\ SessionUnchanged
    /\ c2d' = IF ~connection /\ Reconnects THEN <<>> ELSE c2d
    /\ recv' = IF ~connection THEN [pc |-> "top", id |-> 0] ELSE recv
    /\ LET done(status) == [NoReturn EXCEPT !.op = op, !.req = cli_ops + 1,
                                            !.ret = status]
           at(pc) == [IdleCaller EXCEPT !.pc = pc, !.op = op, !.req = cli_ops + 1]
       IN  IF connection /\ sock = -1 /\ connected = 0
           THEN caller' = [caller EXCEPT ![c] = at("reconnect")] /\ returned' = NoReturn
           ELSE IF connected' = 0
           THEN returned' = done(-EIO) /\ UNCHANGED caller
           ELSE IF op \in LocalOps
           THEN returned' = done(-EPERM) /\ UNCHANGED caller
           ELSE caller' = [caller EXCEPT ![c] = at("take_id")] /\ returned' = NoReturn
    /\ UNCHANGED <<daemon_up, callback_end, callbacks, aborted, net_faults, clash>>
    /\ EngineIdle
    /\ SessionIdle
    /\ TransferIdle
    /\ ListingIdle
    /\ OwnerIdle
    /\ NodeIdle
    /\ NoAnswer

call_create_remote_file(c)   == Call(c, CREATE_FILE, MaxCliOps)
call_create_remote_dir(c)    == Call(c, CREATE_DIR, MaxCliOps)
call_get_remote_file_attr(c) == Call(c, GET_FILE_ATTR, MaxCliOps)
call_read_remote_dir(c)      == Call(c, READ_DIR, MaxCliOps)
call_open_remote_file(c)     == Call(c, OPEN_FILE, MaxCliOps)
call_read_remote_file(c)     == Call(c, READ_FILE, MaxCliOps)
call_write_remote_file(c)    == Call(c, WRITE_FILE, MaxCliOps)

(***************************************************************************)
(* The operations of Connection, one action per statement that another     *)
(* thread can observe.  send_request holds send_lock from its first send() *)
(* to its last, so it is one action.                                       *)
(***************************************************************************)

\* What the steps of a caller leave alone.
CallerOnly ==
    /\ UNCHANGED <<daemon_up, connection, recv, cli_ops, clash>>
    /\ EngineIdle
    /\ SessionIdle
    /\ TransferIdle
    /\ ListingIdle
    /\ OwnerIdle
    /\ NodeIdle
    /\ NoAnswer

\* client.cpp 45-51 and connection.cpp 64-79: the thread that found sock ==
\* -1 in Node::get_connection and connected == 0 at the top of reconnect()
\* gets connect_lock and connects, whatever `connected` is by then.  The
\* operation returns -EIO when that failed; otherwise it goes on as in Call.
get_connection_reconnect(c) ==
    /\ ~aborted
    /\ caller[c].pc = "reconnect"
    /\ reconnect_socket
    /\ c2d' = IF daemon_up THEN <<>> ELSE c2d
    /\ LET status == IF connected' = 0 THEN -EIO ELSE -EPERM
       IN  IF connected' = 0 \/ caller[c].op \in LocalOps
           THEN /\ caller' = [caller EXCEPT ![c] = IdleCaller]
                /\ returned' = [NoReturn EXCEPT !.op = caller[c].op,
                                                !.req = caller[c].req,
                                                !.ret = status]
           ELSE /\ caller' = [caller EXCEPT ![c].pc = "take_id"]
                /\ returned' = NoReturn
    /\ UNCHANGED <<callback_end, callbacks, aborted, net_faults>>
    /\ CallerOnly

\* connection.cpp 278, 318, 354, 422, 466: int id = this->callback_end
take_id(c) ==
    /\ ~aborted
    /\ caller[c].pc = "take_id"
    /\ caller' = [b \in Callers |->
                    IF b = c
                    THEN [caller[c] EXCEPT !.pc = "bump", !.id = callback_end,
                             !.peer = IF \E x \in Callers : Outstanding(x)
                                      THEN caller[CHOOSE x \in Callers : Outstanding(x)].req
                                      ELSE 0]
                    ELSE IF Outstanding(b) THEN [caller[b] EXCEPT !.peer = caller[c].req]
                    ELSE caller[b]]
    /\ clash' = (clash \/ \E b \in Callers : Outstanding(b) /\ caller[b].id = callback_end)
    /\ UNCHANGED <<daemon_up, connection, recv, cli_ops>>
    /\ UNCHANGED <<c2d, sock, connected, callback_end, callbacks, aborted,
                   net_faults>>
    /\ returned' = NoReturn
    /\ SessionUnchanged
    /\ EngineIdle
    /\ SessionIdle
    /\ TransferIdle
    /\ ListingIdle
    /\ OwnerIdle
    /\ NodeIdle
    /\ NoAnswer

\* connection.cpp 279, 319, 355, 423, 467:
\* this->callback_end = (this->callback_end + 1) % MAX_BUFFER_SIZE, not under
\* any lock: the stored value is computed from the cursor as it is now or as
\* the caller read it for `id`.
bump_callback_end(c) ==
    /\ ~aborted
    /\ caller[c].pc = "bump"
    /\ \E seen \in {callback_end, caller[c].id} :
          callback_end' = (seen + 1) % MAX_BUFFER_SIZE
    /\ caller' = [caller EXCEPT ![c].pc =
                     IF caller[c].op = CREATE_FILE THEN "send" ELSE "mark"]
    /\ UNCHANGED <<c2d, sock, connected, callbacks, aborted, net_faults>>
    /\ returned' = NoReturn
    /\ SessionUnchanged
    /\ CallerOnly

\* connection.cpp 320-321, 356-357, 424-425, 468 (before the send) and 289
\* (create_remote_file, after the send): callbacks[id].state = IN_PROGRESS
SetInProgress(c, next) ==
    /\ ~aborted
    /\ callbacks' = [callbacks EXCEPT ![caller[c].id].state = IN_PROGRESS,
                                      ![caller[c].id].owner = caller[c].req]
    /\ caller' = [caller EXCEPT ![c].pc = next]
    /\ UNCHANGED <<c2d, sock, connected, callback_end, aborted, net_faults>>
    /\ returned' = NoReturn
    /\ SessionUnchanged
    /\ CallerOnly

mark_in_progress(c)      == caller[c].pc = "mark" /\ SetInProgress(c, "send")
mark_in_progress_late(c) == caller[c].pc = "mark_late" /\ SetInProgress(c, "wait")

\* sizeof(seal_size_t) and sizeof(struct stat), in units of a length field.
LengthField == 1
StatSize    == 1

\* The size an engine operation reports: the bytes of a directory listing or
\* of a file read.
DataSize == 1

\* The widths of a mode_t and of an off_t, in units of a length field.
ModeSize == 1
OffsetSize == 2

\* The path lengths and the buffer sizes of the requests.
MaxPathLength == 2
PathLengths == 1..MaxPathLength
BufferSizes == {0, DataSize}

\* The meta_data_length an operation passes to send_request (connection.cpp
\* 284, 327, 362, 430, 472-477) for a buffer of `size` bytes.
RequestMetaLength(op, size) ==
    CASE op = CREATE_FILE -> ModeSize
      [] op = READ_FILE   -> OffsetSize
      [] op = WRITE_FILE  -> OffsetSize + LengthField
      [] OTHER            -> 0

\* The data_length it passes.
RequestDataLength(op, size) ==
    CASE op = READ_FILE  -> LengthField
      [] op = WRITE_FILE -> size
      [] OTHER           -> 0

\* The total_length it passes (281, 326, 361, 429, 476).
RequestTotalLength(op, path_length, size) ==
    CASE op = CREATE_FILE -> 3 * LengthField + path_length + ModeSize
      [] op = WRITE_FILE  -> 3 * LengthField + path_length
                                + RequestMetaLength(op, size) + size
      [] OTHER            -> 3 * LengthField + path_length

\* connection.cpp 205: what send_request asserts of its arguments.
SendRequestAssert(total_length, path_length, meta_data_length, data_length) ==
    total_length = 3 * LengthField + path_length + meta_data_length + data_length

\* The total_length the operation passes is the one send_request asserts:
\* read_remote_file (connection.cpp 429-430) leaves the meta data and data
\* lengths out of it.
TotalLengthOK(op) ==
    \A path_length \in PathLengths, size \in BufferSizes :
        SendRequestAssert(RequestTotalLength(op, path_length, size), path_length,
                          RequestMetaLength(op, size), RequestDataLength(op, size))

\* The request frame of caller c with `sent` of its parts written.
Frame(c, sent) ==
    [req |-> caller[c].req, id |-> caller[c].id, op |-> caller[c].op,
     sent |-> sent, bad |-> ~TotalLengthOK(caller[c].op)]

\* send_request returns -EIO to the operation (connection.cpp 207-214 and
\* alike: unlock, no disconnect), which resets its slot unless it is
\* create_remote_file (285-287, 328-332, 363-368, 431-436, 478-482).
SendFailed(c) ==
    /\ callbacks' = IF caller[c].op = CREATE_FILE THEN callbacks
                    ELSE Released(c, caller[c].id, EMPTY)
    /\ Leave(c, -EIO, 0, IF caller[c].op = CREATE_FILE
                         THEN callbacks[caller[c].id].state ELSE EMPTY)

\* send_request returns 0.
SendDone(c) ==
    /\ caller' = [caller EXCEPT ![c].pc =
                     IF caller[c].op = CREATE_FILE THEN "mark_late" ELSE "wait"]
    /\ UNCHANGED callbacks
    /\ returned' = NoReturn

\* connection.cpp 203-269: Connection::send_request.  The assert ends the
\* process when total_length is wrong and assertions are compiled in;
\* without them the frame goes out with it.  Under send_lock: reconnect(),
\* then the send() calls, header first.  A send() fails on a connection
\* whose other end is closed (or the bytes are accepted and lost), and can
\* fail on a live one, before the frame or in the middle of it (max_faults
\* bounds the faults of one behaviour).
send_request(c, max_faults) ==
    /\ ~aborted
    /\ caller[c].pc = "send"
    /\ \/ /\ ~TotalLengthOK(caller[c].op)
          /\ aborted' = TRUE
          /\ UNCHANGED <<caller, c2d, sock, connected, callbacks, net_faults>>
          /\ returned' = NoReturn
          /\ SessionUnchanged
       \/ /\ UNCHANGED aborted
          /\ reconnect
          /\ LET wire == IF Reconnects THEN <<>> ELSE c2d
                 live == IF connected = 0 THEN daemon_up ELSE link = "up"
             IN  \/ /\ live
                    /\ c2d' = Append(wire, Frame(c, FrameParts))
                    /\ SendDone(c)
                    /\ UNCHANGED net_faults
                 \/ /\ live
                    /\ net_faults < max_faults
                    /\ net_faults' = net_faults + 1
                    /\ \E sent \in 0..(FrameParts - 1) :
                          c2d' = IF sent = 0 THEN wire ELSE Append(wire, Frame(c, sent))
                    /\ SendFailed(c)
                 \/ /\ ~live /\ connected = 1
                    /\ UNCHANGED <<c2d, net_faults>>
                    /\ SendDone(c)
                 \/ /\ ~live
                    /\ UNCHANGED <<c2d, net_faults>>
                    /\ SendFailed(c)
    /\ UNCHANGED callback_end
    /\ CallerOnly

\* read_remote_file returns `size`, the other operations the status.
Result(op, status) ==
    IF op = READ_FILE /\ status >= 0 THEN CHOOSE n \in ReadSizes : TRUE ELSE status

\* The response of request r can still arrive.
Pending(r) ==
    \/ \E i \in 1..Len(c2d) : c2d[i].req = r /\ c2d[i].sent = FrameParts
    \/ \E i \in 1..Len(d2c) : d2c[i].req = r
    \/ srv_workers[r].pc # "none"

\* connection.cpp 290-299, 335-344, 371-385, 439-453, 485-494: wait_for
\* returns (notified, timed out or woken spuriously) and the slot is tested.
\* A slot that is not DONE is set EMPTY, except by get_remote_file_attr; a
\* DONE slot is set EMPTY only by read_remote_dir and read_remote_file, on a
\* negative status.
await_response(c) ==
    /\ ~aborted
    /\ caller[c].pc = "wait"
    /\ LET id   == caller[c].id
           slot == callbacks[id]
           op   == caller[c].op
           fail == op \in {READ_DIR, READ_FILE} /\ slot.status < 0
       IN  IF slot.state # DONE
           THEN /\ callbacks' = Released(c, id, IF op = GET_FILE_ATTR THEN slot.state
                                                ELSE EMPTY)
                /\ Leave(c, -ETIMEDOUT, 0, IF op = GET_FILE_ATTR THEN slot.state
                                           ELSE EMPTY)
                /\ timed_out' = IF Pending(caller[c].req)
                                THEN timed_out \cup {caller[c].req} ELSE timed_out
           ELSE /\ callbacks' = Released(c, id, IF fail THEN EMPTY ELSE DONE)
                /\ Leave(c, Result(op, slot.status), slot.rsp,
                         IF fail THEN EMPTY ELSE DONE)
                /\ UNCHANGED timed_out
    /\ UNCHANGED <<link, c2d, d2c, sock, connected, callback_end, aborted,
                   net_faults, srv_connected, srv_send_lock, srv_workers>>
    /\ CallerOnly

\* What an uninitialized seal_size_t can hold, one value of each kind: one
\* that makes total_length less than -1, one that makes it -1, one that
\* makes it fall inside the body, a harmless one, and one greater than the
\* buffer the data is sent from (server.cpp 221).
GarbageSizes == {-4, -3, -1, DataSize, MAX_BUFFER_SIZE + 1}

\* server.cpp 184, 197, 211, 226, 240, 256: the meta_data_length and the
\* data_length the handler of `op` passes to response(), `size` being the
\* size of the listing (read_dir) or of the read (read_file).
MetaLength(op, size) ==
    IF op = GET_FILE_ATTR THEN StatSize ELSE IF op = READ_FILE THEN size ELSE 0

DataLength(op, size) == IF op = READ_DIR THEN size ELSE 0

\* The total_length the handler passes: sizeof(seal_size_t) +
\* sizeof(seal_size_t) + the size it sends.
TotalLength(op, size) ==
    LengthField + LengthField +
        (IF op = GET_FILE_ATTR THEN StatSize
         ELSE IF op \in {READ_DIR, READ_FILE} THEN size ELSE 0)

\* server.cpp 146-169: the bytes response() writes after the header: the
\* two length fields, and the meta data and the data when their length is
\* positive.
BodyLength(f) ==
    LengthField + (IF f.meta > 0 THEN f.meta ELSE 0)
    + LengthField + (IF f.data > 0 THEN f.data ELSE 0)

\* The lengths of the frame do not describe it.
Bad(f) == f.total # BodyLength(f) \/ f.meta < 0 \/ f.data < 0

(***************************************************************************)
(* Connection::recv_response, the receive thread.                          *)
(***************************************************************************)

\* What the receive thread's steps leave alone.
RecvOnly ==
    /\ UNCHANGED <<daemon_up, connection, callback_end, aborted, cli_ops,
                   net_faults, clash>>
    /\ returned' = NoReturn
    /\ EngineIdle
    /\ SessionIdle
    /\ TransferIdle
    /\ ListingIdle
    /\ OwnerIdle
    /\ NodeIdle
    /\ NoAnswer

\* connection.cpp 86-88: close(sock); connected = 0; sock = -1.  The daemon's
\* session ends with the connection.
close_socket ==
    /\ connected' = 0
    /\ sock' = -1
    /\ link' = "none"
    /\ c2d' = <<>>
    /\ d2c' = <<>>
    /\ srv_connected' = FALSE
    /\ srv_send_lock' = FALSE
    /\ srv_workers' = NoWorkers
    /\ timed_out' = {}

\* A disconnect that does not test `connected` under the lock.
disconnect_unchecked == close_socket

\* connection.cpp 84-90: Connection::disconnect from the lock on:
\* `if (connected)` is tested again under connect_lock.
disconnect ==
    IF connected = 1
    THEN close_socket
    ELSE UNCHANGED <<connected, sock, link, c2d, d2c, srv_connected, srv_send_lock,
                     srv_workers, timed_out>>

\* recv() failed or returned 0: disconnect() and return (connection.cpp
\* 112-116 and alike).
RecvFailed ==
    /\ disconnect
    /\ recv' = [pc |-> "exited", id |-> 0]
    /\ UNCHANGED <<callbacks, caller>>

\* A response is consumed: its request is no longer awaited, and the caller
\* of the request, when it has not returned, has got it.
Consumed(req) ==
    /\ timed_out' = timed_out \ {req}
    /\ caller' = [c \in Callers |->
                    IF caller[c].req = req THEN [caller[c] EXCEPT !.got = TRUE]
                    ELSE caller[c]]

\* connection.cpp 35 and 101-107: the thread starts at the top of the loop,
\* which it leaves when the connection is not connected
recv_response_start ==
    /\ ~aborted
    /\ recv.pc = "top"
    /\ recv' = [recv EXCEPT !.pc = IF connected = 1 THEN "header" ELSE "exited"]
    /\ UNCHANGED <<c2d, sock, connected, callbacks, caller>>
    /\ SessionUnchanged
    /\ RecvOnly

\* connection.cpp 111-152: the header is read; a response whose slot is not
\* IN_PROGRESS is outdated, otherwise its status goes into the slot.  When
\* the thread stands inside a frame, the id it reads is whatever bytes are
\* there: an id out of range (124-128) or any slot's.
recv_response_header ==
    /\ ~aborted
    /\ recv.pc = "header"
    /\ \/ /\ d2c # <<>>
          /\ \E id \in IF Head(d2c).junk THEN Slots ELSE {Head(d2c).id} :
             IF callbacks[id].state # IN_PROGRESS
             THEN /\ recv' = [pc |-> "drain", id |-> id]
                  /\ UNCHANGED callbacks
             ELSE /\ recv' = [pc |-> "body", id |-> id]
                  /\ callbacks' = [callbacks EXCEPT ![id].status = Head(d2c).status,
                                                    ![id].rsp = Head(d2c).req]
          /\ UNCHANGED <<c2d, sock, connected, caller>>
          /\ SessionUnchanged
       \/ /\ d2c # <<>> /\ Head(d2c).junk
          /\ RecvFailed
       \/ /\ d2c = <<>> /\ link # "up"
          /\ RecvFailed
    /\ RecvOnly

\* connection.cpp 134-135: recv() of total_length bytes into the throw-away
\* buffer returns total_length ("ok": the frame's body is consumed), does
\* not ("fail": a negative length, for which recv() returns -1), or returns
\* total_length without having consumed the body ("inside": a
\* total_length of -1, which the -1 of the failed recv() equals, or one
\* that is not the length of the body).
DrainOutcome(f) ==
    IF f.total = BodyLength(f) THEN "ok"
    ELSE IF f.total < -1 THEN "fail"
    ELSE "inside"

\* connection.cpp 148-196: total_length, meta_data_length and data_length
\* are tested for < 0 ("fail"); otherwise the two length fields and the
\* bytes they announce are read, which is the body response() wrote.
BodyOutcome(f) ==
    IF f.total < 0 \/ f.meta < 0 \/ f.data < 0 THEN "fail" ELSE "ok"

\* connection.cpp 134-141 (total_length bytes of an outdated response are
\* read and dropped) and 156-199 (the meta data and the data are read into
\* the slot's buffers; state = DONE; notify_one), then the top of the loop
\* (101-107).  A thread that stands inside a frame reads lengths that are
\* whatever bytes are there: it disconnects on them or goes on with them.
RecvBody(here, done) ==
    /\ ~aborted
    /\ recv.pc = here
    /\ LET f       == Head(d2c)
           outcome == IF done THEN BodyOutcome(f) ELSE DrainOutcome(f)
           next    == [pc |-> IF connected = 1 THEN "header" ELSE "exited", id |-> 0]
       IN  \/ /\ d2c # <<>>
              /\ f.sent = FrameParts /\ (f.junk \/ outcome = "ok")
              /\ d2c' = Tail(d2c)
              /\ callbacks' = IF done THEN [callbacks EXCEPT ![recv.id].state = DONE]
                              ELSE callbacks
              /\ IF f.junk
                 THEN timed_out' = timed_out \ {f.req} /\ UNCHANGED caller
                 ELSE Consumed(f.req)
              /\ recv' = next
              /\ UNCHANGED <<link, c2d, sock, connected, srv_connected,
                             srv_send_lock, srv_workers>>
           \/ /\ d2c # <<>>
              /\ f.sent = FrameParts /\ ~f.junk /\ outcome = "inside"
              /\ d2c' = <<[f EXCEPT !.junk = TRUE]>> \o Tail(d2c)
              /\ recv' = next
              /\ UNCHANGED <<link, c2d, sock, connected, srv_connected,
                             srv_send_lock, srv_workers, callbacks, caller,
                             timed_out>>
           \/ /\ d2c # <<>>
              /\ f.sent < FrameParts /\ link = "eof"
              /\ RecvFailed
           \/ /\ d2c # <<>>
              /\ f.sent = FrameParts /\ (f.junk \/ outcome = "fail")
              /\ RecvFailed
           \/ /\ d2c = <<>> /\ link # "up"
              /\ RecvFailed
    /\ RecvOnly

\* An outdated response handled as a current one.
recv_response_drain_as_body == RecvBody("drain", TRUE)

recv_response_drain == RecvBody("drain", FALSE)
recv_response_body  == RecvBody("body", TRUE)

(***************************************************************************)
(* Node::disconnect, the operation of the client that closes the           *)
(* connection.  The FUSE bridge does not call it.                          *)
(***************************************************************************)

\* The calls of Node::disconnect in one behaviour.
MaxDisconnects == 2

\* What the steps of Node::disconnect leave alone.
NodeOnly ==
    /\ UNCHANGED <<daemon_up, connection, callback_end, callbacks, recv, caller,
                   aborted, cli_ops, net_faults, clash>>
    /\ returned' = NoReturn
    /\ NoAnswer
    /\ EngineIdle
    /\ SessionIdle
    /\ TransferIdle
    /\ ListingIdle
    /\ OwnerIdle

\* client.cpp 54-58 and connection.cpp 83: Node::disconnect calls
\* Connection::disconnect, which returns when `connected` is 0 and goes for
\* connect_lock otherwise.
node_disconnect ==
    /\ ~aborted
    /\ connection
    /\ node.pc = "idle"
    /\ node.calls < MaxDisconnects
    /\ node' = [pc |-> IF connected = 1 THEN "lock" ELSE "idle",
                calls |-> node.calls + 1]
    /\ UNCHANGED <<connected, sock, link, c2d, d2c, srv_connected, srv_send_lock,
                   srv_workers, timed_out>>
    /\ NodeOnly

\* connection.cpp 84-90: the thread has connect_lock.
node_disconnect_locked ==
    /\ ~aborted
    /\ node.pc = "lock"
    /\ disconnect
    /\ node' = [node EXCEPT !.pc = "idle"]
    /\ NodeOnly

(***************************************************************************)
(* The daemon's session on the connection: Server::parse_request, the      *)
(* operation_filter threads and Server::response.                          *)
(***************************************************************************)

\* What the daemon's steps leave alone.
DaemonOnly ==
    /\ UNCHANGED <<connection, sock, connected, callback_end, callbacks, recv,
                   caller, aborted, cli_ops, clash>>
    /\ returned' = NoReturn
    /\ EngineIdle
    /\ SessionIdle
    /\ TransferIdle
    /\ ListingIdle
    /\ OwnerIdle
    /\ NodeIdle

\* A frame the daemon parses as the client meant it.
WellFormed(f) == f.sent = FrameParts /\ ~f.bad

\* The bytes at the head of the stream are not one request: some bytes of
\* a frame (one cut short, or the rest of one whose total_length was smaller
\* than its length) with other bytes after them.
Misframed ==
    /\ c2d # <<>>
    /\ Head(c2d).sent < FrameParts /\ Len(c2d) > 1

\* server.cpp 21-26: Server::disconnect
srv_disconnect ==
    /\ srv_connected' = FALSE
    /\ link' = "eof"

\* server.cpp 32-58: a header and total_length bytes are read and handed to
\* a new operation_filter thread; neither total_length nor the type is
\* looked at.  Of a frame that is longer than its total_length says, the
\* rest stays in the stream.
parse_request ==
    /\ srv_connected
    /\ c2d # <<>> /\ Head(c2d).sent = FrameParts
    /\ c2d' = IF WellFormed(Head(c2d)) THEN Tail(c2d)
              ELSE <<[Head(c2d) EXCEPT !.sent = FrameParts - 1]>> \o Tail(c2d)
    /\ srv_workers' = [srv_workers EXCEPT ![Head(c2d).req] =
                          [pc |-> "run", id |-> Head(c2d).id,
                           op |-> Head(c2d).op, status |-> 0]]
    /\ UNCHANGED <<daemon_up, link, d2c, srv_connected, srv_send_lock, net_faults,
                   timed_out>>
    /\ NoAnswer
    /\ DaemonOnly

\* server.cpp 36-56 and 62-113 on bytes that are not one request: the
\* header and the lengths it reads are whatever bytes are there.  The
\* session closes the connection (110-112: the operation_filter thread of
\* an unknown type) or the daemon dies (51: new char[total_length] of a
\* negative total_length throws, and nothing catches it).
parse_request_misframed ==
    /\ srv_connected
    /\ Misframed
    /\ c2d' = <<>>
    /\ srv_disconnect
    /\ \/ UNCHANGED <<daemon_up, srv_workers, srv_send_lock>>
       \/ /\ daemon_up' = FALSE
          /\ srv_workers' = NoWorkers
          /\ srv_send_lock' = FALSE
    /\ UNCHANGED <<d2c, net_faults>>
    /\ timed_out' = { r \in timed_out : Pending(r)' }
    /\ NoAnswer
    /\ DaemonOnly

\* server.cpp 62-113 and 174-257: the operation_filter thread runs the
\* engine operation of the request, which returns a status.
operation_filter(r) ==
    /\ srv_workers[r].pc = "run"
    /\ \E status \in Statuses :
          srv_workers' = [srv_workers EXCEPT ![r].pc = "respond",
                                             ![r].status = status]
    /\ UNCHANGED <<daemon_up, link, c2d, d2c, srv_connected, srv_send_lock,
                   net_faults, timed_out>>
    /\ NoAnswer
    /\ DaemonOnly

\* A response frame that does not carry the id of its request.
ResponseFrameOtherId(r, sent, size) ==
    [req |-> r, id |-> (srv_workers[r].id + 1) % MAX_BUFFER_SIZE,
     status |-> srv_workers[r].status,
     sent |-> sent, total |-> TotalLength(srv_workers[r].op, size),
     meta |-> MetaLength(srv_workers[r].op, size),
     data |-> DataLength(srv_workers[r].op, size), junk |-> FALSE]

\* The response frame of request r with `sent` of its parts written.
ResponseFrame(r, sent, size) ==
    [req |-> r, id |-> srv_workers[r].id, status |-> srv_workers[r].status,
     sent |-> sent, total |-> TotalLength(srv_workers[r].op, size),
     meta |-> MetaLength(srv_workers[r].op, size),
     data |-> DataLength(srv_workers[r].op, size), junk |-> FALSE]

\* server.cpp 221-226: Server::read_dir passes `size` to response() as the
\* data length; Engine::read_dir sets it only when it returns 0, so after a
\* failed read_dir it is an uninitialized value.
SizeUninitialized(r) ==
    srv_workers[r].op = READ_DIR /\ srv_workers[r].status < 0

\* server.cpp 104-106: operation_filter takes the offset and the size of a
\* READ_FILE request from behind the path and the meta data length; the
\* total_length read_remote_file sends (connection.cpp 428-430) ends before
\* them, so they are read from beyond the end of the buffer.
SizeBeyondBuffer(r) == srv_workers[r].op = READ_FILE

\* The size response() is called with is not one the engine reported.
SizeGarbage(r) == SizeUninitialized(r) \/ SizeBeyondBuffer(r)

\* server.cpp 118-172: Server::response: lock; `if (!connected) return -1`;
\* the send() calls, header first; unlock.  The return on !connected and
\* the one on a failed send() (after disconnect()) leave the lock held.  A
\* data length that is an uninitialized value is whatever the stack held:
\* a length the send() of the data succeeds with, one the client cannot
\* parse the frame with, or one the send() of the data fails with.
response(r, max_faults) ==
    /\ srv_workers[r].pc = "respond"
    /\ ~srv_send_lock
    /\ srv_workers' = [srv_workers EXCEPT ![r] = NoWorkers[r]]
    /\ \/ /\ ~srv_connected
          /\ srv_send_lock' = TRUE
          /\ UNCHANGED <<d2c, link, srv_connected, net_faults>>
       \/ /\ srv_connected
          /\ \E size \in IF SizeGarbage(r) THEN GarbageSizes ELSE {DataSize} :
                d2c' = Append(d2c, ResponseFrame(r, FrameParts, size))
          /\ UNCHANGED <<link, srv_connected, srv_send_lock, net_faults>>
       \/ /\ srv_connected
          /\ SizeGarbage(r)
          /\ d2c' = Append(d2c, ResponseFrame(r, FrameParts - 1, MAX_BUFFER_SIZE + 1))
          /\ srv_disconnect
          /\ srv_send_lock' = TRUE
          /\ UNCHANGED net_faults
       \/ /\ srv_connected
          /\ net_faults < max_faults
          /\ net_faults' = net_faults + 1
          /\ \E sent \in 0..(FrameParts - 1) :
                d2c' = IF sent = 0 THEN d2c
                       ELSE Append(d2c, ResponseFrame(r, sent, DataSize))
          /\ srv_disconnect
          /\ srv_send_lock' = TRUE
    /\ UNCHANGED <<daemon_up, c2d>>
    /\ timed_out' = { q \in timed_out : Pending(q)' }
    /\ answered' = IF d2c' # d2c THEN answered \cup {r} ELSE answered
    /\ DaemonOnly

\* The daemon process is killed: its end of the connection closes; what it
\* had already written can still be read by the client.
DaemonKill ==
    /\ daemon_up
    /\ net_faults < MaxNetFaults
    /\ net_faults' = net_faults + 1
    /\ daemon_up' = FALSE
    /\ link' = IF link = "up" THEN "eof" ELSE link
    /\ c2d' = <<>>
    /\ srv_connected' = FALSE
    /\ srv_send_lock' = FALSE
    /\ srv_workers' = NoWorkers
    /\ timed_out' = { r \in timed_out : \E i \in 1..Len(d2c) : d2c[i].req = r }
    /\ UNCHANGED d2c
    /\ NoAnswer
    /\ DaemonOnly

\* The daemon is started again (main.cpp 23-75) and accepts connections.
DaemonRestart ==
    /\ ~daemon_up
    /\ daemon_up' = TRUE
    /\ UNCHANGED <<link, c2d, d2c, srv_connected, srv_send_lock, srv_workers,
                   net_faults, timed_out>>
    /\ NoAnswer
    /\ DaemonOnly

ClientStep ==
    \/ \E c \in Callers :
          \/ call_create_remote_file(c)
          \/ call_create_remote_dir(c)
          \/ call_get_remote_file_attr(c)
          \/ call_read_remote_dir(c)
          \/ call_open_remote_file(c)
          \/ call_read_remote_file(c)
          \/ call_write_remote_file(c)
          \/ get_connection_reconnect(c)
          \/ take_id(c)
          \/ bump_callback_end(c)
          \/ mark_in_progress(c)
          \/ send_request(c, MaxNetFaults)
          \/ mark_in_progress_late(c)
          \/ await_response(c)
    \/ recv_response_start
    \/ recv_response_header
    \/ recv_response_drain
    \/ recv_response_body
    \/ parse_request
    \/ parse_request_misframed
    \/ \E r \in Reqs : operation_filter(r)
    \/ \E r \in Reqs : response(r, MaxNetFaults)
    \/ DaemonKill
    \/ DaemonRestart

\* One connection with faults: daemon kills, failing send() calls.
SpecClient == Init /\ [][ClientStep]_vars

\* One caller thread going round the callback ring: no fault occurs, and
\* the operations are those whose frames the daemon parses.
RingOps == {CREATE_FILE, GET_FILE_ATTR, READ_DIR, WRITE_FILE}

RingStep ==
    \/ \E c \in {1} :
          \/ \E op \in RingOps : Call(c, op, MaxRingOps)
          \/ get_connection_reconnect(c)
          \/ take_id(c)
          \/ bump_callback_end(c)
          \/ mark_in_progress(c)
          \/ send_request(c, NoFaults)
          \/ mark_in_progress_late(c)
          \/ await_response(c)
    \/ recv_response_start
    \/ recv_response_header
    \/ recv_response_drain
    \/ recv_response_body
    \/ parse_request
    \/ \E r \in Reqs : operation_filter(r)
    \/ \E r \in Reqs : response(r, NoFaults)

SpecRing == Init /\ [][RingStep]_vars

\* One caller thread calling the operations one after another, with the
\* faults of SpecClient: the cursor wraps and slots are used again.
SeqStep ==
    \/ \E c \in {1} :
          \/ \E op \in SendingOps : Call(c, op, MaxRingOps)
          \/ get_connection_reconnect(c)
          \/ take_id(c)
          \/ bump_callback_end(c)
          \/ mark_in_progress(c)
          \/ send_request(c, MaxNetFaults)
          \/ mark_in_progress_late(c)
          \/ await_response(c)
    \/ recv_response_start
    \/ recv_response_header
    \/ recv_response_drain
    \/ recv_response_body
    \/ parse_request
    \/ parse_request_misframed
    \/ \E r \in Reqs : operation_filter(r)
    \/ \E r \in Reqs : response(r, MaxNetFaults)
    \/ DaemonKill
    \/ DaemonRestart

SpecSeq == Init /\ [][SeqStep]_vars

\* One caller thread and a thread that calls Node::disconnect, with faults.
TeardownStep ==
    \/ \E c \in {1} :
          \/ \E op \in SendingOps : Call(c, op, MaxCliOps)
          \/ get_connection_reconnect(c)
          \/ take_id(c)
          \/ bump_callback_end(c)
          \/ mark_in_progress(c)
          \/ send_request(c, MaxNetFaults)
          \/ mark_in_progress_late(c)
          \/ await_response(c)
    \/ recv_response_start
    \/ recv_response_header
    \/ recv_response_drain
    \/ recv_response_body
    \/ node_disconnect
    \/ node_disconnect_locked
    \/ parse_request
    \/ parse_request_misframed
    \/ \E r \in Reqs : operation_filter(r)
    \/ \E r \in Reqs : response(r, MaxNetFaults)
    \/ DaemonKill
    \/ DaemonRestart

SpecTeardown == Init /\ [][TeardownStep]_vars

\* The steps of a caller thread inside an operation.  The thread is
\* scheduled and its waits are timed (wait_for, connection.cpp 291, 336,
\* 372, 440, 486), so a step that stays possible is taken.
CallerStep(c) ==
    \/ get_connection_reconnect(c)
    \/ take_id(c)
    \/ bump_callback_end(c)
    \/ mark_in_progress(c)
    \/ send_request(c, MaxNetFaults)
    \/ mark_in_progress_late(c)
    \/ await_response(c)

\* SpecSeq with the caller thread, the receive thread and the daemon's
\* threads scheduled fairly.
SpecSeqFair ==
    /\ SpecSeq
    /\ WF_vars(CallerStep(1))
    /\ WF_vars(recv_response_start \/ recv_response_header
               \/ recv_response_drain \/ recv_response_body)
    /\ WF_vars(parse_request \/ parse_request_misframed)
    /\ \A r \in Reqs : WF_vars(operation_filter(r) \/ response(r, MaxNetFaults))

(***************************************************************************)
(* The lifetime of one daemon session: create_server (main.cpp 16-21), the *)
(* parse_request loop, the operation_filter threads it starts and the      *)
(* `delete server` after the loop.                                         *)
(***************************************************************************)

\* What the steps of the session's threads leave alone.
SessionOnly ==
    UNCHANGED <<engvars, daemon_up, link, c2d, d2c, connection, sock, connected,
                callback_end, callbacks, recv, caller, returned, aborted,
                srv_connected, srv_send_lock, srv_workers, cli_ops, net_faults,
                timed_out, clash, node, answered, xfer, listing, owner>>

\* The Server object has been deleted (main.cpp 20).
Deleted == session.pc = "deleted"

\* A thread started by parse_request that has not returned from
\* operation_filter.
Running(r) == session.threads[r].pc \in {"operation_filter", "response"}

\* The client closes its end of the connection, or its process ends.
peer_close ==
    /\ session.peer_open
    /\ session' = [session EXCEPT !.peer_open = FALSE]
    /\ SessionOnly

\* server.cpp 33-57: one round of the loop: header and body are read and
\* `new std::thread(&Server::operation_filter, this, ...)` is started; the
\* thread object is dropped, nothing joins it.
server_parse_request ==
    /\ session.pc = "parse_request"
    /\ session.connected /\ session.peer_open
    /\ \E r \in SessReqs, type \in SendingOps \cup {UnknownType} :
          /\ session.threads[r].pc = "none"
          /\ \A q \in SessReqs : q < r => session.threads[q].pc # "none"
          /\ session' = [session EXCEPT !.threads[r] =
                            [pc |-> "operation_filter", type |-> type]]
    /\ SessionOnly

\* server.cpp 33, 37-41, 52-56, 59: parse_request returns: recv() returned
\* less than it was asked for (the peer closed, or a worker closed the
\* socket in disconnect()), or `connected` was found false.
server_parse_request_return ==
    /\ session.pc = "parse_request"
    /\ ~session.connected \/ ~session.peer_open
    /\ session' = [session EXCEPT !.pc = "delete", !.connected = FALSE]
    /\ SessionOnly

\* main.cpp 20 and server.cpp 15-19: `delete server` right after
\* parse_request returned; the destructor disconnects if still connected
\* and waits for no thread.
create_server_delete ==
    /\ session.pc = "delete"
    /\ session' = [session EXCEPT !.pc = "deleted", !.connected = FALSE]
    /\ SessionOnly

\* server.cpp 62-115: the thread runs the handler of its type, which calls
\* the engine through this->engine and then response(); for an unknown
\* type it calls disconnect() (110-112) and returns.
server_operation_filter(r) ==
    /\ session.threads[r].pc = "operation_filter"
    /\ IF Deleted
       THEN session' = [session EXCEPT
                           !.threads[r].pc =
                               IF session.threads[r].type = UnknownType
                               THEN "done" ELSE "response",
                           !.freed_use = TRUE]
       ELSE IF session.threads[r].type = UnknownType
       THEN session' = [session EXCEPT !.threads[r].pc = "done",
                                       !.connected = FALSE]
       ELSE session' = [session EXCEPT !.threads[r].pc = "response"]
    /\ SessionOnly

\* server.cpp 118-172: Server::response in the thread: send_lock.lock(),
\* the test of `connected`, the send() calls on `sock`, unlock.  On a
\* deleted Server all three are reads of freed memory.
server_response(r) ==
    /\ session.threads[r].pc = "response"
    /\ IF Deleted
       THEN session' = [session EXCEPT !.threads[r].pc = "done",
                                       !.freed_use = TRUE]
       ELSE /\ ~session.send_lock
            /\ \/ /\ ~session.connected
                  /\ session' = [session EXCEPT !.threads[r].pc = "done",
                                                !.send_lock = TRUE]
               \/ /\ session.connected
                  /\ session' = [session EXCEPT !.threads[r].pc = "done"]
               \/ /\ session.connected /\ ~session.peer_open
                  /\ session' = [session EXCEPT !.threads[r].pc = "done",
                                                !.connected = FALSE,
                                                !.send_lock = TRUE]
    /\ SessionOnly

SessionStep ==
    \/ peer_close
    \/ server_parse_request
    \/ server_parse_request_return
    \/ create_server_delete
    \/ \E r \in SessReqs : server_operation_filter(r)
    \/ \E r \in SessReqs : server_response(r)

\* One session of the daemon, from accept() to the end of its threads.
SpecSession == Init /\ [][SessionStep]_vars

(***************************************************************************)
(* One READ_FILE exchange, byte for byte: read_remote_file builds the      *)
(* request, operation_filter takes it apart, Server::read_file answers,    *)
(* recv_response stores the answer and read_remote_file copies it out.     *)
(* Lengths are in units of a length field.                                 *)
(***************************************************************************)

\* What the steps of the exchange leave alone.
TransferOnly ==
    UNCHANGED <<engvars, daemon_up, link, c2d, d2c, connection, sock, connected,
                callback_end, callbacks, recv, caller, returned, aborted,
                srv_connected, srv_send_lock, srv_workers, cli_ops, net_faults,
                timed_out, clash, node, answered, session, listing, owner>>

\* The file that is read, its path, and the arguments of the call.
FileBytes       == <<5, 6, 7>>
TransferPath    == <<SLASH, 97>>
TransferSizes   == {1, 2}
TransferOffsets == {0, 1}

\* What memory that was never written, or that lies beyond a buffer, can
\* hold: a length unit, a byte.
GarbageUnits == {0, 2}
GarbageBytes == {5, 9}

\* The byte strings of length n that such memory can hold.
Garbage(n) == [1..n -> GarbageBytes]

\* connection.cpp 231-266: the body send_request writes after the header.
RequestBody(path, meta_data, data) ==
    <<Len(path)>> \o path \o <<Len(meta_data)>> \o meta_data
                  \o <<Len(data)>> \o data

\* A read of the request buffer at index i: beyond its end it yields what
\* the heap holds there.
BufferAt(buffer, i, garbage) == IF i <= Len(buffer) THEN buffer[i] ELSE garbage

\* The value of an off_t made of two units; a high unit that is not 0
\* makes an offset beyond the end of the file.
OffsetValue(lo, hi) == IF hi = 0 THEN lo ELSE lo + hi * (Len(FileBytes) + 1)

\* connection.cpp 415-430: slot taken, callbacks[id].data = new char[size]
\* (not initialized), request sent with the off_t `offset` (low unit first)
\* as meta data, the seal_size_t `size` as data, and total_length = 3
\* length fields + path_length; the daemon's parse_request reads
\* total_length bytes of the body (server.cpp 51-52).
read_remote_file_send ==
    /\ xfer.pc = "idle"
    /\ \E size \in TransferSizes, offset \in TransferOffsets :
       \E fresh \in Garbage(size) :
          xfer' = [xfer EXCEPT
                      !.pc = "sent", !.size = size, !.offset = offset,
                      !.slot_data = fresh,
                      !.buffer = SubSeq(RequestBody(TransferPath, <<offset, 0>>, <<size>>),
                                        1, RequestTotalLength(READ_FILE,
                                                              Len(TransferPath), size))]
    /\ TransferOnly

\* server.cpp 63, 104-105: path_length is the first field; the offset is
\* read behind the path and the meta data length, the size (as a size_t,
\* of which the seal_size_t parameter keeps the low unit) behind the offset.
read_file_arguments ==
    /\ xfer.pc = "sent"
    /\ LET path_length == xfer.buffer[1]
           at == LengthField + path_length + LengthField
       IN  \E beyond \in GarbageUnits, high \in GarbageUnits :
              xfer' = [xfer EXCEPT
                  !.pc = "filtered",
                  !.srv_offset = OffsetValue(BufferAt(xfer.buffer, at + 1, beyond),
                                             BufferAt(xfer.buffer, at + 2, high)),
                  !.srv_size = BufferAt(xfer.buffer, at + OffsetSize + 1, beyond)]
    /\ TransferOnly

\* server.cpp 243-257 and engine.cpp 290-303: pread into the local `buf`
\* (not initialized); response() with meta_data_length = size, meta_data =
\* buf, data_length = 0.
server_read_file ==
    /\ xfer.pc = "filtered"
    /\ LET read == PRead(FileBytes, xfer.srv_size, xfer.srv_offset)
       IN  \E rest \in Garbage(xfer.srv_size - Len(read)) :
              xfer' = [xfer EXCEPT !.pc = "responded", !.read = read,
                                   !.meta = read \o rest, !.data = <<>>]
    /\ TransferOnly

\* connection.cpp 156-198: the meta data is received into
\* callbacks[id].meta_data, which read_remote_file never set: the recv()
\* fails on it (disconnect, no notification) or writes through it; the
\* data is received into callbacks[id].data; state = DONE.
recv_read_file_response ==
    /\ xfer.pc = "responded"
    /\ \/ /\ Len(xfer.meta) > 0
          /\ xfer' = [xfer EXCEPT !.pc = "failed"]
       \/ xfer' = [xfer EXCEPT
                      !.pc = "done",
                      !.slot_data = xfer.data \o
                          SubSeq(xfer.slot_data, Len(xfer.data) + 1,
                                 Len(xfer.slot_data))]
    /\ TransferOnly

\* connection.cpp 439-456: -ETIMEDOUT when the slot is not DONE; else
\* memcpy(buf, callbacks[id].data, size) and return size.
read_remote_file_return ==
    /\ \/ /\ xfer.pc = "failed"
          /\ xfer' = [xfer EXCEPT !.pc = "returned", !.ret = -ETIMEDOUT]
       \/ /\ xfer.pc = "done"
          /\ xfer' = [xfer EXCEPT !.pc = "returned", !.ret = xfer.size,
                                  !.buf = SubSeq(xfer.slot_data, 1, xfer.size)]
    /\ TransferOnly

ReadFileStep ==
    \/ read_remote_file_send
    \/ read_file_arguments
    \/ server_read_file
    \/ recv_read_file_response
    \/ read_remote_file_return

\* One read_remote_file call against a daemon that holds the file.
SpecReadFile == Init /\ [][ReadFileStep]_vars

(***************************************************************************)
(* The packed record of one directory: what create_file and create_dir     *)
(* append to it (util.hpp add_dir) for the names they accept.              *)
(***************************************************************************)

\* What the appends leave alone.
ListingOnly ==
    UNCHANGED <<engvars, daemon_up, link, c2d, d2c, connection, sock, connected,
                callback_end, callbacks, recv, caller, returned, aborted,
                srv_connected, srv_send_lock, srv_workers, cli_ops, net_faults,
                timed_out, clash, node, answered, session, xfer, owner>>

\* The values of a u_int8_t.
ByteRange == 256

\* New entries of the directory in one behaviour, and the lengths of their
\* names: neither operation bounds the length of a name.
MaxEntries == 2
NameLengths == {1, 2, ByteRange - 1, ByteRange, ByteRange + 1}

\* engine.cpp 110-111: create_file appends the part of the path behind the
\* last '/', which is not empty and holds no '/'.
create_file_add_dir ==
    /\ Len(listing.names) < Len(NewListing.names) + MaxEntries
    /\ \E n \in NameLengths :
          LET new_dir == [i \in 1..n |-> 97]
          IN  listing' = [record |-> add_dir(listing.record, new_dir),
                          names |-> Append(listing.names, new_dir)]
    /\ ListingOnly

\* engine.cpp 183: create_dir appends the part of the path behind the last
\* '/' before the final one, the final '/' included.
create_dir_add_dir ==
    /\ Len(listing.names) < Len(NewListing.names) + MaxEntries
    /\ \E n \in NameLengths :
          LET new_dir == [i \in 1..n |-> IF i = n THEN SLASH ELSE CH_d]
          IN  listing' = [record |-> add_dir(listing.record, new_dir),
                          names |-> Append(listing.names, new_dir)]
    /\ ListingOnly

ListingStep == create_file_add_dir \/ create_dir_add_dir

\* The record of one directory as entries are appended to it.
SpecListing == Init /\ [][ListingStep]_vars

(***************************************************************************)
(* Node::get_connection (client.cpp 41-52) called by several threads of    *)
(* the FUSE bridge for the one Node that Client::add_server made.          *)
(***************************************************************************)

\* What the steps of get_connection leave alone.
OwnerOnly ==
    UNCHANGED <<engvars, daemon_up, link, c2d, d2c, connection, sock, connected,
                callback_end, callbacks, recv, caller, returned, aborted,
                srv_connected, srv_send_lock, srv_workers, cli_ops, net_faults,
                timed_out, clash, node, answered, session, xfer, listing>>

\* client.cpp 27-30 and 88-94: add_server makes the Node; Node::Node sets
\* host and port and leaves `connection` as the allocator handed it out.
add_server ==
    /\ owner.node = "none"
    /\ \E pointer \in {NULL, WildPointer} :
          owner' = [owner EXCEPT !.node = "made", !.connection = pointer]
    /\ OwnerOnly

\* client.cpp 75-81 and 42: a thread enters get_connection and tests
\* `this->connection == NULL`; no lock is held.
get_connection_test(t) ==
    /\ owner.node = "made"
    /\ owner.threads[t].pc = "idle"
    /\ owner' = [owner EXCEPT !.threads[t].pc =
                    IF owner.connection = NULL THEN "new" ELSE "sock"]
    /\ OwnerOnly

\* client.cpp 43: this->connection = new Connection(host, port): a socket,
\* a slot table and a receive thread of its own (connection.cpp 12-35).
get_connection_new(t) ==
    /\ owner.threads[t].pc = "new"
    /\ owner' = [owner EXCEPT !.created = owner.created + 1,
                              !.connection = owner.created + 1,
                              !.threads[t].pc = "sock"]
    /\ OwnerOnly

\* client.cpp 45-51: the test of this->connection->sock and
\* `return this->connection`, the member as it is at that time.
get_connection_return(t) ==
    /\ owner.threads[t].pc = "sock"
    /\ owner' = [owner EXCEPT !.threads[t] =
                    [pc |-> "returned", got |-> owner.connection]]
    /\ OwnerOnly

OwnerStep ==
    \/ add_server
    \/ \E t \in NodeThreads :
          \/ get_connection_test(t)
          \/ get_connection_new(t)
          \/ get_connection_return(t)

\* One Node and the threads that ask it for its connection.
SpecNode == Init /\ [][OwnerStep]_vars

SpecEngine == Init /\ [][EngineStep]_vars

(***************************************************************************)
(*                    CLAIMS ABOUT THE CLIENT CONNECTION                   *)
(***************************************************************************)

\* C1: of two requests that were outstanding together under different ids,
\* a caller whose own response the receive thread consumed before the
\* caller returned returns that response, whatever the order of arrival.
C1_OwnResponse ==
    (~clash /\ returned.op \in SendingOps /\ returned.peer # 0 /\ returned.got)
        => returned.rsp = returned.req

\* C2: the ids of requests that are outstanding together (id taken, caller
\* not returned) are pairwise distinct.
C2_DistinctIds ==
    \A c1, c2 \in Callers :
        (c1 # c2 /\ Outstanding(c1) /\ Outstanding(c2)) => caller[c1].id # caller[c2].id

\* C3: the slot of a request is IN_PROGRESS from before the first byte of
\* its frame is written until its caller returns, so the receive thread
\* never treats the response of a request whose caller is waiting as
\* outdated.
C3_InProgressBeforeSend ==
    /\ \A c \in Callers :
          (Outstanding(c) /\ \E i \in 1..Len(c2d) : c2d[i].req = caller[c].req)
             => callbacks[caller[c].id].state = IN_PROGRESS
    /\ recv.pc = "drain" =>
          ~\E c \in Callers : Outstanding(c) /\ caller[c].req = Head(d2c).req

\* C4: the late response of a request that timed out is never parsed into
\* a slot that another request holds: the new request's status and state
\* are not changed by the old response.
C4_LateResponseDropped ==
    \A i \in Slots :
        (callbacks[i].owner # 0 /\ callbacks[i].rsp \in timed_out)
            => callbacks[i].rsp = callbacks[i].owner

\* C5: an operation that returns -ETIMEDOUT leaves its slot EMPTY.
C5_TimeoutLeavesEmpty ==
    returned.ret = -ETIMEDOUT => returned.left = EMPTY

\* C6: a receive loop is running whenever the connection is connected, also
\* after the daemon was killed and restarted and the client reconnected.
C6_ReceiveLoopRuns ==
    connected = 1 => recv.pc \in {"top", "header", "drain", "body"}

\* C7: in both directions, no frame follows an incompletely written frame
\* on the wire.
C7_FramesWhole ==
    /\ \A i \in 1..(Len(c2d) - 1) : c2d[i].sent = FrameParts
    /\ \A i \in 1..(Len(d2c) - 1) : d2c[i].sent = FrameParts

(***************************************************************************)
(*                     CLAIMS ABOUT THE METADATA ENGINE                    *)
(***************************************************************************)

\* The names listed in the record of directory `key` (none when the
\* directory has no record).
Listed(key) ==
    IF sub_dir_db[key] = NotFound THEN {}
    ELSE { DirNames(sub_dir_db[key])[i] : i \in 1..Len(DirNames(sub_dir_db[key])) }

\* The parent key of an entry of the attr namespace, found as its create
\* found it.
ParentKeyOf(p) ==
    SubSeq(p, 1, IF file_attr_db[p] = <<CH_d>> THEN DirParentLen(p)
                 ELSE FileParentLen(p))

LeafOf(p) == SubSeq(p, Len(ParentKeyOf(p)) + 1, Len(p))

\* C8: whenever no create is in progress and no store operation has failed,
\* every non-root path that has an attr entry is listed in its immediate
\* parent's directory record under its last component (with the trailing
\* '/' kept for a directory), also after creates that ran concurrently under
\* the same parent.
C8_ParentListsChild ==
    (Quiet /\ eng_faults = 0) =>
        \A p \in Keys \ {Root} :
            file_attr_db[p] # NotFound => LeafOf(p) \in Listed(ParentKeyOf(p))

\* C9: no directory record contains the same name twice, and of the creates
\* of one path at most one returns 0, also when they run concurrently.
C9_NoDuplicateNames ==
    /\ \A k \in Keys :
          sub_dir_db[k] # NotFound =>
             \A i, j \in 1..Len(DirNames(sub_dir_db[k])) :
                DirNames(sub_dir_db[k])[i] = DirNames(sub_dir_db[k])[j] => i = j
    /\ \A p \in EngPaths : zero_creates[p] <= 1

\* C10: in every state, every path whose attr entry is "f" has a
\* file-location entry, and the host directory and the host file that the
\* entry names exist.
C10_FileHasLocation ==
    \A p \in Keys :
        file_attr_db[p] = <<CH_f>> =>
            /\ file_db[p] # NotFound
            /\ DirPath(file_db[p]) \in host_dirs
            /\ HostFileExists(file_db[p])

\* C11: in every state, every path whose attr entry is "d" has a directory
\* record, and the record lists "." and ".."; a read_dir of a path whose
\* attr entry is "d" does not return -ENOENT (no store call failing).
C11_DirHasRecord ==
    /\ [](\A p \in Keys :
            file_attr_db[p] = <<CH_d>> =>
               /\ sub_dir_db[p] # NotFound
               /\ {<<DOT>>, <<DOT, DOT>>} \subseteq Listed(p))
    /\ [][\A w \in Workers :
            (/\ worker[w].op = "rd_attr"
             /\ worker[w].pc # "done"
             /\ worker'[w].pc = "done"
             /\ eng_faults' = eng_faults
             /\ file_attr_db[worker[w].path] = <<CH_d>>)
               => worker'[w].ret # -ENOENT]_vars

\* A read_dir of a created directory has returned its record, and a
\* create_dir is between the Put of its record and the Put of its attr.
C11_Witness ==
    /\ \E w \in Workers :
          /\ worker[w].pc = "done" /\ worker[w].op = "rd_attr"
          /\ worker[w].path # Root /\ worker[w].ret = 0
    /\ \E w \in Workers : worker[w].pc = "cd_put_attr"

\* C12: a create_file of a file path, or a create_dir of a directory path,
\* that looks up a path on which a create has already returned 0 returns
\* -EEXIST at once (no store call failing) and leaves every directory
\* record as it was.
C12_SecondCreateRejected ==
    [][\A w \in Workers :
          (/\ \/ /\ worker[w].pc = "cf_check"
                 /\ worker[w].path[Len(worker[w].path)] # SLASH
              \/ /\ worker[w].pc = "cd_check"
                 /\ worker[w].path[Len(worker[w].path)] = SLASH
           /\ worker'[w].pc # worker[w].pc
           /\ zero_creates[worker[w].path] >= 1
           /\ eng_faults' = eng_faults)
             => /\ worker'[w].pc = "done"
                /\ worker'[w].ret = -EEXIST
                /\ sub_dir_db' = sub_dir_db]_vars

\* A create_file of a path whose create_file had returned 0 has been
\* rejected.
C12_Witness ==
    \E w \in Workers :
        /\ worker[w].pc = "done" /\ worker[w].op = "cf_check"
        /\ worker[w].ret = -EEXIST
        /\ zero_creates[worker[w].path] = 1

C15_RootInstalled ==
    \A w \in Workers :
        (worker[w].pc = "done" /\ eng_faults = 0) =>
            /\ (worker[w].op = "rd_attr" /\ worker[w].path = Root)
                  => /\ worker[w].ret = 0
                     /\ called = {} => DirNames(worker[w].data) = <<<<DOT>>, <<DOT, DOT>>>>
            /\ (worker[w].op = "ga_attr" /\ worker[w].path = Root)
                  => worker[w].ret = 0 /\ worker[w].data = <<CH_d, 2>>
            /\ (/\ worker[w].op = "cf_check"
                /\ SubSeq(worker[w].path, 1, FileParentLen(worker[w].path)) = Root)
                  => worker[w].ret # -ENOENT
            /\ (/\ worker[w].op = "cd_check"
                /\ SubSeq(worker[w].path, 1, DirParentLen(worker[w].path)) = Root)
                  => worker[w].ret # -ENOENT

\* C16: when the worker of a request whose engine operation returned a
\* negative status calls response() on a connected session (no send()
\* failing for a fault of the network), one complete response with the
\* request's id and that status is written and the session stays connected.
C16_ErrorsKeepSession ==
    [][\A r \in Reqs :
          (/\ srv_workers[r].pc = "respond"
           /\ srv_workers[r].status < 0
           /\ srv_workers'[r].pc = "none"
           /\ srv_connected
           /\ net_faults' = net_faults
           /\ c2d' = c2d /\ recv' = recv /\ daemon_up' = daemon_up)
             => /\ srv_connected'
                /\ d2c' = Append(d2c, [req |-> r, id |-> srv_workers[r].id,
                                       status |-> srv_workers[r].status,
                                       sent |-> FrameParts,
                                       total |-> TotalLength(srv_workers[r].op, DataSize),
                                       meta |-> MetaLength(srv_workers[r].op, DataSize),
                                       data |-> DataLength(srv_workers[r].op, DataSize),
                                       junk |-> FALSE])]_vars

\* C17: a create_remote_dir on a connected client does not fail locally
\* with -EPERM.
C17_MkdirSupported ==
    (returned.op = CREATE_DIR /\ connected = 1) => returned.ret # -EPERM

\* C18: an open_remote_file on a connected client returns 0.
C18_OpenSucceeds ==
    (returned.op = OPEN_FILE /\ connected = 1) => returned.ret = 0

\* C19: whenever the receive thread is about to write the meta data and
\* data of a response into a slot's buffers, the slot is held by that
\* response's request and the caller of the request has not returned.
C19_WritesOnlyForWaiter ==
    recv.pc = "body" =>
        /\ callbacks[recv.id].owner # 0
        /\ callbacks[recv.id].owner = callbacks[recv.id].rsp

\* C20: an operation whose request had an id of its own and whose response
\* was received completely before the operation returned does not return
\* -ETIMEDOUT.
C20_TimeoutOnlyWithoutResponse ==
    (~clash /\ returned.ret = -ETIMEDOUT) => ~returned.got

\* C21: a slot's state changes only EMPTY -> IN_PROGRESS, IN_PROGRESS ->
\* DONE, IN_PROGRESS -> EMPTY and DONE -> EMPTY, and a request takes its
\* slot (sets it IN_PROGRESS) only when the slot is EMPTY.
C21_SlotLifecycle ==
    [][/\ \A i \in Slots :
             callbacks'[i].state # callbacks[i].state
                => <<callbacks[i].state, callbacks'[i].state>>
                      \in {<<EMPTY, IN_PROGRESS>>, <<IN_PROGRESS, DONE>>,
                           <<IN_PROGRESS, EMPTY>>, <<DONE, EMPTY>>}
       /\ \A c \in Callers :
             (caller[c].pc \in {"mark", "mark_late"} /\ caller'[c].pc # caller[c].pc)
                => callbacks[caller[c].id].state = EMPTY]_vars

\* C22: an operation whose send_request failed returns -EIO and leaves the
\* slot it took EMPTY.
C22_SendFailureReleases ==
    [][\A c \in Callers :
          (caller[c].pc = "send" /\ caller'[c].pc = "idle")
             => /\ returned'.ret = -EIO
                /\ callbacks'[caller[c].id].state = EMPTY]_vars

C24_OperationsReturn ==
    \A c \in Callers : (caller[c].pc # "idle") ~> (caller[c].pc = "idle")

\* C25: an operation called on a connection that is not connected, while
\* the daemon is reachable, connects (and so does not return -EIO for the
\* missing connection).
C25_ReconnectsWhenReachable ==
    [][\A c \in Callers :
          (/\ caller[c].pc \in {"idle", "reconnect"}
           /\ returned'.ret = -EIO
           /\ returned'.req = IF caller[c].pc = "idle" THEN cli_ops' ELSE caller[c].req
           /\ cli_ops' = cli_ops + 1 \/ caller'[c].pc # caller[c].pc)
             => ~daemon_up]_vars

\* C26: a thread that comes to connect inside reconnect() when another
\* thread has connected in the meantime creates no socket and leaves the
\* socket and the connection that are in use alone.
C26_OneReconnects ==
    [][\A c \in Callers :
          (caller[c].pc = "reconnect" /\ caller'[c].pc # "reconnect" /\ connected = 1)
             => /\ sock' = sock
                /\ UNCHANGED <<link, c2d, d2c, srv_workers>>]_vars

C28_ViolationsDisconnect ==
    [][(/\ recv.pc \in {"drain", "body"} /\ recv' # recv
        /\ d2c # <<>>
        /\ Head(d2c).sent = FrameParts /\ ~Head(d2c).junk
        /\ (Head(d2c).total < 0 \/ Head(d2c).meta < 0 \/ Head(d2c).data < 0))
          => /\ recv'.pc = "exited"
             /\ connected' = 0
             /\ \A i \in Slots : callbacks'[i].state = callbacks[i].state]_vars

\* C29: when the bytes at the head of the request stream are not one
\* request of a known type whose lengths lie inside its total_length, the
\* session closes the connection without starting a worker, and the daemon
\* stays up.
C29_BadRequestsClose ==
    [][(/\ srv_connected /\ c2d # <<>>
        /\ Misframed \/ (Head(c2d).sent = FrameParts /\ Head(c2d).bad)
        /\ c2d' = <<>> \/ Head(c2d') # Head(c2d)
        /\ connected' = connected /\ sock' = sock /\ net_faults' = net_faults)
          => /\ daemon_up'
             /\ ~srv_connected'
             /\ srv_workers' = srv_workers]_vars

\* C30: a worker of a session that is and stays connected writes one
\* complete response frame, which carries the id of the worker's request;
\* the request has not been answered before; and every frame that appears
\* on the response stream is written by the worker of a request the session
\* received, with that request's id.
C30_OneResponsePerRequest ==
    [][/\ \A r \in Reqs :
             (/\ srv_workers[r].pc = "respond" /\ srv_workers'[r].pc = "none"
              /\ srv_connected /\ srv_connected')
                => /\ r \notin answered
                   /\ Len(d2c') = Len(d2c) + 1
                   /\ d2c'[Len(d2c')].req = r
                   /\ d2c'[Len(d2c')].id = srv_workers[r].id
                   /\ d2c'[Len(d2c')].sent = FrameParts
       /\ Len(d2c') > Len(d2c)
             => \E r \in Reqs :
                   /\ srv_workers[r].pc = "respond" /\ srv_workers'[r].pc = "none"
                   /\ r \notin answered
                   /\ d2c' = Append(d2c, d2c'[Len(d2c')])
                   /\ d2c'[Len(d2c')].req = r
                   /\ d2c'[Len(d2c')].id = srv_workers[r].id]_vars

\* Two requests with different ids have been answered, each once, and the
\* second response is on the wire with its request's id.
C30_Witness ==
    /\ srv_connected
    /\ Cardinality(answered) = 2
    /\ d2c # <<>>
    /\ d2c[Len(d2c)].sent = FrameParts
    /\ d2c[Len(d2c)].id # 0
    /\ \A r \in Reqs : srv_workers[r].pc = "none"

\* C31: whenever a worker returns from response(), the session's send lock
\* is free: on the return taken when the session is already disconnected,
\* on the returns after a failed send(), and on the return at the end.
C31_SendLockReleased ==
    [][\A r \in Reqs :
          (srv_workers[r].pc = "respond" /\ srv_workers'[r].pc = "none")
             => ~srv_send_lock']_vars

\* C32: once the session object has been deleted, no thread that
\* parse_request started is still running, and no thread has used the
\* object (its socket, send lock or connected flag) after the deletion.
C32_SessionOutlivesWorkers ==
    /\ Deleted => \A r \in SessReqs : ~Running(r)
    /\ ~session.freed_use

\* C33: the assertion in send_request has not failed, every request frame
\* on the wire was sent with a total_length of 3 length fields plus its
\* path, meta data and data lengths, and every response frame on the wire
\* declares a total_length of 2 length fields plus its meta data and data
\* lengths.
C33_TotalLengthMatches ==
    /\ ~aborted
    /\ \A i \in 1..Len(c2d) : ~c2d[i].bad
    /\ \A i \in 1..Len(d2c) :
          ~d2c[i].junk => d2c[i].total = 2 * LengthField + d2c[i].meta + d2c[i].data

\* C34: in a READ_FILE exchange the request the daemon parses carries size
\* followed by offset in its meta field and no data, the daemon reads with
\* the caller's size and offset, the response carries the bytes read in its
\* data field and no meta data, and the bytes copied to the caller's buffer
\* are the bytes the engine read.
C34_ReadFileLayout ==
    /\ xfer.pc # "idle"
          => xfer.buffer = RequestBody(TransferPath, <<xfer.size, xfer.offset, 0>>, <<>>)
    /\ xfer.pc \in {"filtered", "responded", "done", "failed", "returned"}
          => xfer.srv_size = xfer.size /\ xfer.srv_offset = xfer.offset
    /\ xfer.pc \in {"responded", "done", "failed", "returned"}
          => xfer.meta = <<>> /\ xfer.data = xfer.read
    /\ xfer.pc = "returned" => xfer.ret >= 0 /\ xfer.buf = xfer.read

\* C35: a read_file that reaches the host file and does not fail returns
\* the number of bytes it read, which is the smaller of size and what the
\* file holds from the offset on (0 at or after the end).
C35_ReadReturnsBytesRead ==
    [][\A w \in Workers :
          (/\ worker[w].pc = "rf_io"
           /\ worker'[w].pc = "done"
           /\ worker'[w].ret >= 0)
             => LET length == Len(host_files[worker[w].value])
                    left == IF length > worker[w].arg.offset
                            THEN length - worker[w].arg.offset ELSE 0
                IN  /\ worker'[w].ret = Len(worker'[w].data)
                    /\ worker'[w].ret = IF worker[w].arg.size < left
                                        THEN worker[w].arg.size ELSE left]_vars

\* C36: decoding a directory's record as (length byte, name) entries gives
\* the names that were appended to it, in the order of the appends, and
\* none of them is empty.
C36_RecordDecodes ==
    /\ DirNames(listing.record) = listing.names
    /\ \A i \in 1..Len(listing.names) : listing.names[i] # <<>>

\* C37: no step of create_file or create_dir up to and including its last
\* precondition check changes the attr, dir or loc namespace or the host
\* filesystem; a create that fails one of these checks returns from such a
\* step, with -EISDIR (create_file) or -ENOTDIR (create_dir) for the wrong
\* trailing '/', -EEXIST for a path present in attr, a negative status for
\* a path without a '/'-terminated parent prefix, and -ENOENT for a missing
\* parent record.
C37_FailedCreateChangesNothing ==
    [][\A w \in Workers :
          (/\ worker[w].pc \in {"cf_check", "cf_get_parent",
                                "cd_check", "cd_get_parent"}
           /\ worker'[w] # worker[w])
             => /\ UNCHANGED <<file_attr_db, sub_dir_db, file_db, host_dirs,
                               host_files>>
                /\ LET path == worker[w].path
                       file == worker[w].pc \in {"cf_check", "cf_get_parent"}
                       slash == path[Len(path)] = SLASH
                       n == IF file THEN FileParentLen(path)
                            ELSE DirParentLen(path)
                   IN  /\ (worker[w].pc \in {"cf_check", "cd_check"}
                           /\ eng_faults' = eng_faults)
                             => IF file = slash
                                THEN /\ worker'[w].pc = "done"
                                     /\ worker'[w].ret =
                                           IF file THEN -EISDIR ELSE -ENOTDIR
                                ELSE IF Get(file_attr_db, path) # NotFound
                                THEN /\ worker'[w].pc = "done"
                                     /\ worker'[w].ret = -EEXIST
                                ELSE IF n = 0
                                THEN /\ worker'[w].pc = "done"
                                     /\ worker'[w].ret < 0
                                ELSE worker'[w].pc # "done"
                       /\ (worker[w].pc \in {"cf_get_parent", "cd_get_parent"}
                           /\ Get(sub_dir_db, SubSeq(path, 1, n)) = NotFound)
                             => /\ worker'[w].pc = "done"
                                /\ worker'[w].ret = -ENOENT
                       /\ worker'[w].pc = "done" => worker'[w].ret < 0]_vars

\* A create_file has returned -EEXIST and a create_dir -ENOENT, the stores
\* holding entries at the time.
C37_Witness ==
    /\ \E w \in Workers :
          /\ worker[w].pc = "done" /\ worker[w].op = "cf_check"
          /\ worker[w].ret = -EEXIST
          /\ Get(file_db, worker[w].path) # NotFound
    /\ \E w \in Workers :
          /\ worker[w].pc = "done" /\ worker[w].op = "cd_check"
          /\ worker[w].ret = -ENOENT

\* C38: the attr lookup of read_dir, read_file and write_file, when no store
\* call fails, ends the operation for a path without attr entry with
\* -ENOENT, and for a path whose entry is not "d" (read_dir) or not "f"
\* (read_file, write_file) with -ENOTDIR or -EISDIR; the operation then
\* returns no data, has read neither the dir nor the loc namespace, and
\* has changed no store and no host file.
C38_ReadsRejectByStatus ==
    [][\A w \in Workers :
          (/\ worker[w].pc \in {"rd_attr", "rf_attr", "wf_attr"}
           /\ worker'[w] # worker[w]
           /\ eng_faults' = eng_faults)
             => LET value == Get(file_attr_db, worker[w].path)
                    dir == worker[w].pc = "rd_attr"
                    wanted == IF dir THEN <<CH_d>> ELSE <<CH_f>>
                IN  /\ value = NotFound
                          => /\ worker'[w].pc = "done"
                             /\ worker'[w].ret = -ENOENT
                    /\ (value # NotFound /\ value # wanted)
                          => /\ worker'[w].pc = "done"
                             /\ worker'[w].ret = IF dir THEN -ENOTDIR ELSE -EISDIR
                    /\ value = wanted => worker'[w].pc # "done"
                    /\ worker'[w].pc = "done"
                          => /\ worker'[w].data = <<>>
                             /\ worker'[w].value = <<>>
                    /\ UNCHANGED <<file_attr_db, sub_dir_db, file_db, host_dirs,
                                   host_files, last_write>>]_vars

\* A read_dir of a regular file has returned -ENOTDIR, and a read_file or
\* write_file of a path that does not exist has returned -ENOENT.
C38_Witness ==
    /\ \E w \in Workers :
          /\ worker[w].pc = "done" /\ worker[w].op = "rd_attr"
          /\ worker[w].ret = -ENOTDIR
          /\ Get(file_attr_db, worker[w].path) = <<CH_f>>
    /\ \E w \in Workers :
          /\ worker[w].pc = "done" /\ worker[w].op \in {"rf_attr", "wf_attr"}
          /\ worker[w].ret = -ENOENT

\* C39: at most one Connection object is ever created for the node, and
\* every thread to which get_connection has returned got that object.
C39_OneConnectionPerNode ==
    /\ owner.created <= 1
    /\ \A t \in NodeThreads :
          owner.threads[t].pc = "returned" => owner.threads[t].got = 1

====
